---- MODULE Spec2Model ----
(***************************************************************************)
(* Incremental-bitmap plugin: the Bitmap Engine (bitmap_engine.c) with its *)
(* metadata map, the dirty/new/deleted bitmaps, the time and WAL indices   *)
(* and its counters, as a state machine with one action per API call.      *)
(*                                                                         *)
(* Allocation never fails in this model and the engine pointer is never    *)
(* NULL, so the ERR_INVALID_PARAM / "return -1" exits of the mark_* calls  *)
(* are not taken.                                                          *)
(***************************************************************************)
EXTENDS Integers, Sequences, FiniteSets, TLC

(* ------------------------------ bounds --------------------------------- *)
NumBlocks == 2
NumWal == 2
NumTimes == 2
MaxCount == 2

BlockIds == 1..NumBlocks
WalOffsets == 1..NumWal
Timestamps == 1..NumTimes
\* range-query bounds reach one key below and one key above the keys in use
WalBounds == 0..(NumWal + 1)
TimeBounds == 0..(NumTimes + 1)
MaxCounts == 0..MaxCount

(* --------------------------- block states ------------------------------ *)
BLOCK_STATE_CLEAN == 0
BLOCK_STATE_DIRTY == 1
BLOCK_STATE_NEW == 2
BLOCK_STATE_DELETED == 3

(* --------------------------- return codes ------------------------------ *)
SUCCESS == "0"
ERR_INVALID_STATE_TRANS == "ERR_INVALID_STATE_TRANS"
ERR_BLOCK_NOT_FOUND == "ERR_BLOCK_NOT_FOUND"
NOT_FOUND == "-1"
\* a null pointer: a record, so that it compares with nodes and bitmap handles
NULL == [ptr |-> "NULL"]

VARIABLES
    metadata_map,     \* block_id -> SBlockMetadata, or NULL when there is no node
    metadata_count,
    dirty_blocks,     \* the three state bitmaps, as sets of block ids
    new_blocks,
    deleted_blocks,
    time_index,       \* skip list: timestamp -> SBitmapInterface of block ids
    wal_index,        \* skip list: wal_offset -> SBitmapInterface of block ids
    total_blocks,
    dirty_count,
    new_count,
    deleted_count,
    call              \* the last API call: its arguments and what it returned

engine == <<metadata_map, metadata_count, dirty_blocks, new_blocks, deleted_blocks,
            time_index, wal_index, total_blocks, dirty_count, new_count, deleted_count>>
vars == <<metadata_map, metadata_count, dirty_blocks, new_blocks, deleted_blocks,
          time_index, wal_index, total_blocks, dirty_count, new_count, deleted_count, call>>

(* ------------------------- transition matrix --------------------------- *)
\* mutant: a matrix in which a DELETED block may be cleared
STATE_TRANSITION_MATRIX_DeletedToClean ==
    << <<0, 1, 1, 1>>,
       <<1, 0, 0, 1>>,
       <<0, 1, 0, 1>>,
       <<1, 0, 0, 0>> >>

\* mutant: a matrix in which a NEW block may be cleared
STATE_TRANSITION_MATRIX_NewToClean ==
    << <<0, 1, 1, 1>>,
       <<1, 0, 0, 1>>,
       <<1, 1, 0, 1>>,
       <<0, 0, 0, 0>> >>

\* mutant: a matrix in which a DIRTY block may be marked NEW
STATE_TRANSITION_MATRIX_DirtyToNew ==
    << <<0, 1, 1, 1>>,
       <<1, 0, 1, 1>>,
       <<0, 1, 0, 1>>,
       <<0, 0, 0, 0>> >>

\* mutant: a matrix in which a DIRTY block may be marked DIRTY again
STATE_TRANSITION_MATRIX_DirtyToDirty ==
    << <<0, 1, 1, 1>>,
       <<1, 1, 0, 1>>,
       <<0, 1, 0, 1>>,
       <<0, 0, 0, 0>> >>

\* rows: current state, columns: target state (CLEAN, DIRTY, NEW, DELETED)
STATE_TRANSITION_MATRIX ==
    << <<0, 1, 1, 1>>,
       <<1, 0, 0, 1>>,
       <<0, 1, 0, 1>>,
       <<0, 0, 0, 0>> >>

bitmap_engine_validate_state_transition(current_state, target_state) ==
    IF current_state < 0 \/ current_state >= 4 \/ target_state < 0 \/ target_state >= 4
    THEN ERR_INVALID_STATE_TRANS
    ELSE IF STATE_TRANSITION_MATRIX[current_state + 1][target_state + 1] # 0
         THEN SUCCESS
         ELSE ERR_INVALID_STATE_TRANS

(* --------------------------- metadata map ------------------------------ *)
SBlockMetadata(block_id, wal_offset, timestamp, state) ==
    [block_id |-> block_id, wal_offset |-> wal_offset, timestamp |-> timestamp, state |-> state]

find_block_metadata(map, block_id) == map[block_id]

\* the map and the node count after insert_block_metadata
insert_block_metadata(map, count, md) ==
    IF find_block_metadata(map, md.block_id) # NULL
    THEN [map |-> [map EXCEPT ![md.block_id] = md], count |-> count]
    ELSE [map |-> [map EXCEPT ![md.block_id] = md], count |-> count + 1]

\* the map and the node count after remove_block_metadata
remove_block_metadata(map, count, block_id) ==
    IF map[block_id] # NULL
    THEN [map |-> [map EXCEPT ![block_id] = NULL], count |-> count - 1]
    ELSE [map |-> map, count |-> count]

(* ----------------------------- skip list ------------------------------- *)
skiplist_find(list, key) == IF key \in DOMAIN list THEN list[key] ELSE NULL

skiplist_insert(list, key, value) ==
    [k \in (DOMAIN list) \cup {key} |-> IF k = key THEN value ELSE list[k]]

\* the keys in [lo, hi] that the range query visits, in ascending order
RECURSIVE SortedSeq(_)
SortedSeq(S) ==
    IF S = {} THEN <<>>
    ELSE LET m == CHOOSE x \in S : \A y \in S : x <= y
         IN <<m>> \o SortedSeq(S \ {m})

skiplist_range_query(list, lo, hi) ==
    SortedSeq({k \in DOMAIN list : lo <= k /\ k <= hi})

(* ------------------------------ indices -------------------------------- *)
\* a bitmap handle as the skip lists store it
bitmap_interface_create == [bitmap |-> {}]

bitmap_add(bm, block_id) == [bitmap |-> bm.bitmap \cup {block_id}]

add_time_index(index, timestamp, block_id) ==
    LET found == skiplist_find(index, timestamp)
        list == IF found = NULL
                THEN skiplist_insert(index, timestamp, bitmap_interface_create)
                ELSE index
    IN [list EXCEPT ![timestamp] = bitmap_add(@, block_id)]

\* mutant: every call stores a fresh bitmap under the key
add_wal_index_Overwrite(index, wal_offset, block_id) ==
    skiplist_insert(index, wal_offset, bitmap_add(bitmap_interface_create, block_id))

add_wal_index(index, wal_offset, block_id) ==
    LET found == skiplist_find(index, wal_offset)
        list == IF found = NULL
                THEN skiplist_insert(index, wal_offset, bitmap_interface_create)
                ELSE index
    IN [list EXCEPT ![wal_offset] = bitmap_add(@, block_id)]

(* ------------------------------ bitmaps -------------------------------- *)
\* to_array: the count it returns, the ids it leaves in the caller's
\* max_count slots and the ids it writes past them
tdengine_roaring_to_array(bitmap, max_count) ==
    LET all == SortedSeq(bitmap)
        cardinality == Cardinality(bitmap)
        count == IF cardinality < max_count THEN cardinality ELSE max_count
    IN [count |-> count,
        array |-> IF count > 0 THEN SubSeq(all, 1, count) ELSE <<>>,
        past  |-> IF count > 0 THEN SubSeq(all, count + 1, cardinality) ELSE <<>>]


(* ---------------------------- read-only calls -------------------------- *)
bitmap_engine_get_block_state(block_id) ==
    LET node == find_block_metadata(metadata_map, block_id)
    IN IF node = NULL
       THEN [ret |-> ERR_BLOCK_NOT_FOUND]
       ELSE [ret |-> SUCCESS, state |-> node.state]

bitmap_engine_get_block_metadata(block_id) ==
    LET node == find_block_metadata(metadata_map, block_id)
    IN IF node = NULL
       THEN [ret |-> NOT_FOUND]
       ELSE [ret |-> SUCCESS, metadata |-> node]

bitmap_engine_get_stats ==
    [total_blocks |-> total_blocks, dirty_count |-> dirty_count,
     new_count |-> new_count, deleted_count |-> deleted_count]

(* ------------------------------ mark_* --------------------------------- *)
\* the state the mark_* calls validate against: CLEAN when there is no node
current_state_of(block_id) ==
    LET existing_node == find_block_metadata(metadata_map, block_id)
    IN IF existing_node # NULL THEN existing_node.state ELSE BLOCK_STATE_CLEAN

MutatorCall(op, block_id, ret) ==
    [op |-> op, block_id |-> block_id, ret |-> ret]

bitmap_engine_mark_dirty(block_id, wal_offset, timestamp) ==
    LET current_state == current_state_of(block_id)
    IN IF bitmap_engine_validate_state_transition(current_state, BLOCK_STATE_DIRTY) # SUCCESS
       THEN /\ call' = MutatorCall("mark_dirty", block_id, ERR_INVALID_STATE_TRANS)
            /\ UNCHANGED engine
       ELSE LET ins == insert_block_metadata(metadata_map, metadata_count,
                           SBlockMetadata(block_id, wal_offset, timestamp, BLOCK_STATE_DIRTY))
            IN /\ metadata_map' = ins.map
               /\ metadata_count' = ins.count
               /\ dirty_blocks' = dirty_blocks \cup {block_id}
               /\ time_index' = add_time_index(time_index, timestamp, block_id)
               /\ wal_index' = add_wal_index(wal_index, wal_offset, block_id)
               /\ dirty_count' = dirty_count + 1
               /\ total_blocks' = total_blocks + 1
               /\ call' = MutatorCall("mark_dirty", block_id, SUCCESS)
               /\ UNCHANGED <<new_blocks, deleted_blocks, new_count, deleted_count>>

bitmap_engine_mark_new(block_id, wal_offset, timestamp) ==
    LET current_state == current_state_of(block_id)
    IN IF bitmap_engine_validate_state_transition(current_state, BLOCK_STATE_NEW) # SUCCESS
       THEN /\ call' = MutatorCall("mark_new", block_id, ERR_INVALID_STATE_TRANS)
            /\ UNCHANGED engine
       ELSE LET ins == insert_block_metadata(metadata_map, metadata_count,
                           SBlockMetadata(block_id, wal_offset, timestamp, BLOCK_STATE_NEW))
            IN /\ metadata_map' = ins.map
               /\ metadata_count' = ins.count
               /\ new_blocks' = new_blocks \cup {block_id}
               /\ time_index' = add_time_index(time_index, timestamp, block_id)
               /\ wal_index' = add_wal_index(wal_index, wal_offset, block_id)
               /\ new_count' = new_count + 1
               /\ total_blocks' = total_blocks + 1
               /\ call' = MutatorCall("mark_new", block_id, SUCCESS)
               /\ UNCHANGED <<dirty_blocks, deleted_blocks, dirty_count, deleted_count>>

\* mutant: the postings are added before the transition is validated
bitmap_engine_mark_deleted_IndexFirst(block_id, wal_offset, timestamp) ==
    LET current_state == current_state_of(block_id)
    IN IF bitmap_engine_validate_state_transition(current_state, BLOCK_STATE_DELETED) # SUCCESS
       THEN /\ call' = MutatorCall("mark_deleted", block_id, ERR_INVALID_STATE_TRANS)
            /\ time_index' = add_time_index(time_index, timestamp, block_id)
            /\ wal_index' = add_wal_index(wal_index, wal_offset, block_id)
            /\ UNCHANGED <<metadata_map, metadata_count, dirty_blocks, new_blocks, deleted_blocks,
                           total_blocks, dirty_count, new_count, deleted_count>>
       ELSE LET ins == insert_block_metadata(metadata_map, metadata_count,
                           SBlockMetadata(block_id, wal_offset, timestamp, BLOCK_STATE_DELETED))
            IN /\ metadata_map' = ins.map
               /\ metadata_count' = ins.count
               /\ deleted_blocks' = deleted_blocks \cup {block_id}
               /\ time_index' = add_time_index(time_index, timestamp, block_id)
               /\ wal_index' = add_wal_index(wal_index, wal_offset, block_id)
               /\ deleted_count' = deleted_count + 1
               /\ total_blocks' = total_blocks + 1
               /\ call' = MutatorCall("mark_deleted", block_id, SUCCESS)
               /\ UNCHANGED <<dirty_blocks, new_blocks, dirty_count, new_count>>

bitmap_engine_mark_deleted(block_id, wal_offset, timestamp) ==
    LET current_state == current_state_of(block_id)
    IN IF bitmap_engine_validate_state_transition(current_state, BLOCK_STATE_DELETED) # SUCCESS
       THEN /\ call' = MutatorCall("mark_deleted", block_id, ERR_INVALID_STATE_TRANS)
            /\ UNCHANGED engine
       ELSE LET ins == insert_block_metadata(metadata_map, metadata_count,
                           SBlockMetadata(block_id, wal_offset, timestamp, BLOCK_STATE_DELETED))
            IN /\ metadata_map' = ins.map
               /\ metadata_count' = ins.count
               /\ deleted_blocks' = deleted_blocks \cup {block_id}
               /\ time_index' = add_time_index(time_index, timestamp, block_id)
               /\ wal_index' = add_wal_index(wal_index, wal_offset, block_id)
               /\ deleted_count' = deleted_count + 1
               /\ total_blocks' = total_blocks + 1
               /\ call' = MutatorCall("mark_deleted", block_id, SUCCESS)
               /\ UNCHANGED <<dirty_blocks, new_blocks, dirty_count, new_count>>

(* ---------------------------- clear_block ------------------------------ *)
\* mutant: the id is removed from the dirty and the deleted bitmap only
bitmap_engine_clear_block_KeepsNew(block_id) ==
    LET existing_node == find_block_metadata(metadata_map, block_id)
    IN IF existing_node = NULL
       THEN /\ call' = MutatorCall("clear_block", block_id, ERR_BLOCK_NOT_FOUND)
            /\ UNCHANGED engine
       ELSE IF bitmap_engine_validate_state_transition(existing_node.state, BLOCK_STATE_CLEAN) # SUCCESS
       THEN /\ call' = MutatorCall("clear_block", block_id, ERR_INVALID_STATE_TRANS)
            /\ UNCHANGED engine
       ELSE LET rem == remove_block_metadata(metadata_map, metadata_count, block_id)
            IN /\ dirty_blocks' = dirty_blocks \ {block_id}
               /\ new_blocks' = new_blocks
               /\ deleted_blocks' = deleted_blocks \ {block_id}
               /\ metadata_map' = rem.map
               /\ metadata_count' = rem.count
               /\ dirty_count' = Cardinality(dirty_blocks')
               /\ new_count' = Cardinality(new_blocks')
               /\ deleted_count' = Cardinality(deleted_blocks')
               /\ total_blocks' = rem.count
               /\ call' = MutatorCall("clear_block", block_id, SUCCESS)
               /\ UNCHANGED <<time_index, wal_index>>

\* mutant: the counter of the cleared state is decremented, the others are left alone
bitmap_engine_clear_block_DecrementsDirty(block_id) ==
    LET existing_node == find_block_metadata(metadata_map, block_id)
    IN IF existing_node = NULL
       THEN /\ call' = MutatorCall("clear_block", block_id, ERR_BLOCK_NOT_FOUND)
            /\ UNCHANGED engine
       ELSE IF bitmap_engine_validate_state_transition(existing_node.state, BLOCK_STATE_CLEAN) # SUCCESS
       THEN /\ call' = MutatorCall("clear_block", block_id, ERR_INVALID_STATE_TRANS)
            /\ UNCHANGED engine
       ELSE LET rem == remove_block_metadata(metadata_map, metadata_count, block_id)
            IN /\ dirty_blocks' = dirty_blocks \ {block_id}
               /\ new_blocks' = new_blocks \ {block_id}
               /\ deleted_blocks' = deleted_blocks \ {block_id}
               /\ metadata_map' = rem.map
               /\ metadata_count' = rem.count
               /\ dirty_count' = dirty_count - 1
               /\ total_blocks' = rem.count
               /\ call' = MutatorCall("clear_block", block_id, SUCCESS)
               /\ UNCHANGED <<new_count, deleted_count, time_index, wal_index>>

bitmap_engine_clear_block(block_id) ==
    LET existing_node == find_block_metadata(metadata_map, block_id)
    IN IF existing_node = NULL
       THEN /\ call' = MutatorCall("clear_block", block_id, ERR_BLOCK_NOT_FOUND)
            /\ UNCHANGED engine
       ELSE IF bitmap_engine_validate_state_transition(existing_node.state, BLOCK_STATE_CLEAN) # SUCCESS
       THEN /\ call' = MutatorCall("clear_block", block_id, ERR_INVALID_STATE_TRANS)
            /\ UNCHANGED engine
       ELSE LET rem == remove_block_metadata(metadata_map, metadata_count, block_id)
            IN /\ dirty_blocks' = dirty_blocks \ {block_id}
               /\ new_blocks' = new_blocks \ {block_id}
               /\ deleted_blocks' = deleted_blocks \ {block_id}
               /\ metadata_map' = rem.map
               /\ metadata_count' = rem.count
               /\ dirty_count' = Cardinality(dirty_blocks')
               /\ new_count' = Cardinality(new_blocks')
               /\ deleted_count' = Cardinality(deleted_blocks')
               /\ total_blocks' = rem.count
               /\ call' = MutatorCall("clear_block", block_id, SUCCESS)
               /\ UNCHANGED <<time_index, wal_index>>

(* ---------------------------- range queries ---------------------------- *)
\* mutant: the key's bitmap is merged without the intersection with dirty_blocks
range_cb_NoIntersect(result, bm) == result \cup bm.bitmap

\* the result bitmap after the callback has seen one key's bitmap bm
range_cb(result, bm) ==
    LET intersection == ({} \cup dirty_blocks) \cap bm.bitmap
    IN result \cup intersection

RECURSIVE range_result(_, _, _)
range_result(index, keys, result) ==
    IF keys = <<>> THEN result
    ELSE range_result(index, Tail(keys), range_cb(result, index[Head(keys)]))

\* what the caller gets back: the count, its max_count-slot array and the ids
\* written past the end of that array
bitmap_engine_get_dirty_blocks_by_time(start_time, end_time, max_count) ==
    IF max_count = 0
    THEN [count |-> 0, array |-> <<>>, past |-> <<>>]
    ELSE tdengine_roaring_to_array(
             range_result(time_index, skiplist_range_query(time_index, start_time, end_time), {}),
             max_count)

bitmap_engine_get_dirty_blocks_by_wal(start_offset, end_offset, max_count) ==
    IF max_count = 0
    THEN [count |-> 0, array |-> <<>>, past |-> <<>>]
    ELSE tdengine_roaring_to_array(
             range_result(wal_index, skiplist_range_query(wal_index, start_offset, end_offset), {}),
             max_count)

(* ======================================================================= *)
(*                          Event interceptor                              *)
(* ======================================================================= *)
BufferSize == 2        \* largest config.event_buffer_size
MaxThreads == 2        \* largest config.callback_threads
MaxStarts == 2         \* event_interceptor_start calls in one run
MaxApiCalls == 3       \* start/stop/destroy calls in one run
MaxEvents == 3         \* on_block_* calls in one run
NumEventBlocks == 1    \* block ids the storage engine reports

EventBlockIds == 1..NumEventBlocks
Tids == 1..(MaxThreads * MaxStarts)

\* EEventType
EVENT_BLOCK_CREATE == 0
EVENT_BLOCK_UPDATE == 1
EVENT_BLOCK_FLUSH == 2
EVENT_BLOCK_DELETE == 3
EEventType == {EVENT_BLOCK_CREATE, EVENT_BLOCK_UPDATE, EVENT_BLOCK_FLUSH, EVENT_BLOCK_DELETE}

VARIABLES
    config,            \* SEventInterceptorConfig, NULL while there is no interceptor
    event_buffer,      \* the ring buffer's events, oldest first
    stop_threads,
    events_processed,
    events_dropped,
    callback_threads,  \* the pthread_t array: slot -> thread id, 0 before any start
    threads,           \* thread id -> where the thread is and the event it holds
    stopper,           \* "joining" while event_interceptor_stop waits in pthread_join
    joined,            \* thread id -> number of pthread_join calls that returned for it
    api_log,           \* the lifecycle calls that have returned, in order
    producer_log,      \* the on_block_* calls: the event and the value returned
    handled            \* the events the workers handled, in order, with the engine's answer

interceptor == <<config, event_buffer, stop_threads, events_processed, events_dropped,
                 callback_threads, threads, stopper, joined, api_log, producer_log, handled>>
ivars == <<metadata_map, metadata_count, dirty_blocks, new_blocks, deleted_blocks,
           time_index, wal_index, total_blocks, dirty_count, new_count, deleted_count, call,
           config, event_buffer, stop_threads, events_processed, events_dropped,
           callback_threads, threads, stopper, joined, api_log, producer_log, handled>>

NO_THREAD == [pc |-> "none", event |-> NULL]

\* no interceptor has been created
NoInterceptor ==
    /\ config = NULL
    /\ event_buffer = <<>>
    /\ stop_threads = FALSE
    /\ events_processed = 0
    /\ events_dropped = 0
    /\ callback_threads = <<>>
    /\ threads = [t \in Tids |-> NO_THREAD]
    /\ stopper = "idle"
    /\ joined = [t \in Tids |-> 0]
    /\ api_log = <<>>
    /\ producer_log = <<>>
    /\ handled = <<>>

(* ----------------------------- ring buffer ----------------------------- *)
ring_buffer_init(capacity) == <<>>

ring_buffer_is_full(buffer, capacity) == Len(buffer) >= capacity

\* the buffer after the call and the value returned: -1 when it is full
ring_buffer_enqueue(buffer, capacity, item) ==
    IF ring_buffer_is_full(buffer, capacity)
    THEN [buffer |-> buffer, result |-> -1]
    ELSE [buffer |-> Append(buffer, item), result |-> 0]

\* an item is there before the timeout: the oldest one is handed out
ring_buffer_dequeue_blocking(buffer) ==
    [buffer |-> Tail(buffer), item |-> Head(buffer), result |-> 0]

(* ------------------------------ callbacks ------------------------------ *)
NO_CALLBACK == "NULL"
BACKUP_EVENT_CALLBACK == "backup_event_callback"

SBlockEvent(event_type, block_id, wal_offset, timestamp) ==
    [event_type |-> event_type, block_id |-> block_id,
     wal_offset |-> wal_offset, timestamp |-> timestamp]

bitmap_engine_mark_clean(block_id, wal_offset, timestamp) ==
    bitmap_engine_clear_block(block_id)

backup_event_callback(event) ==
    CASE event.event_type = EVENT_BLOCK_CREATE ->
            bitmap_engine_mark_new(event.block_id, event.wal_offset, event.timestamp)
      [] event.event_type = EVENT_BLOCK_UPDATE ->
            bitmap_engine_mark_dirty(event.block_id, event.wal_offset, event.timestamp)
      [] event.event_type = EVENT_BLOCK_FLUSH ->
            bitmap_engine_mark_clean(event.block_id, event.wal_offset, event.timestamp)
      [] event.event_type = EVENT_BLOCK_DELETE ->
            bitmap_engine_mark_deleted(event.block_id, event.wal_offset, event.timestamp)

(* ------------------------------ lifecycle ------------------------------ *)
Destroyed == api_log # <<>> /\ api_log[Len(api_log)] = "destroy"
Running(t) == threads[t].pc \in {"loop", "handle"}
Starts == Cardinality({i \in 1..Len(api_log) : api_log[i] = "start"})
Created == {t \in Tids : threads[t].pc # "none"}

event_interceptor_init(cfg) ==
    /\ config = cfg
    /\ event_buffer = ring_buffer_init(cfg.event_buffer_size)
    /\ stop_threads = FALSE
    /\ events_processed = 0
    /\ events_dropped = 0
    /\ callback_threads = [i \in 1..cfg.callback_threads |-> 0]
    /\ threads = [t \in Tids |-> NO_THREAD]
    /\ stopper = "idle"
    /\ joined = [t \in Tids |-> 0]
    /\ api_log = <<"init">>
    /\ producer_log = <<>>
    /\ handled = <<>>

event_interceptor_start ==
    /\ ~Destroyed /\ stopper = "idle"
    /\ Len(api_log) <= MaxApiCalls /\ Starts < MaxStarts
    /\ api_log' = Append(api_log, "start")
    /\ IF stop_threads
       THEN UNCHANGED <<stop_threads, callback_threads, threads>>
       ELSE LET first == Cardinality(Created)
            IN /\ stop_threads' = FALSE
               /\ callback_threads' = [i \in 1..config.callback_threads |-> first + i]
               /\ threads' = [t \in Tids |->
                                IF t \in (first + 1)..(first + config.callback_threads)
                                THEN [pc |-> "loop", event |-> NULL]
                                ELSE threads[t]]
    /\ UNCHANGED <<engine, call, config, event_buffer, events_processed, events_dropped,
                   stopper, joined, producer_log, handled>>

event_interceptor_stop ==
    /\ ~Destroyed
    /\ IF stopper = "idle"
       THEN /\ Len(api_log) <= MaxApiCalls
            /\ IF ~stop_threads
               THEN /\ api_log' = Append(api_log, "stop")
                    /\ UNCHANGED <<stop_threads, stopper, joined>>
               ELSE /\ stop_threads' = TRUE
                    /\ stopper' = "joining"
                    /\ UNCHANGED <<joined, api_log>>
       ELSE /\ \A i \in DOMAIN callback_threads :
                  callback_threads[i] # 0 => threads[callback_threads[i]].pc = "exited"
            /\ joined' = [t \in Tids |->
                            joined[t] + Cardinality({i \in DOMAIN callback_threads :
                                                        callback_threads[i] = t})]
            /\ stopper' = "idle"
            /\ api_log' = Append(api_log, "stop")
            /\ UNCHANGED stop_threads
    /\ UNCHANGED <<engine, call, config, event_buffer, events_processed, events_dropped,
                   callback_threads, threads, producer_log, handled>>

\* destroy calls stop, which returns at once while stop_threads is false, and
\* then frees the ring buffer, the thread array and the interceptor
event_interceptor_destroy ==
    /\ ~Destroyed /\ stopper = "idle"
    /\ Len(api_log) <= MaxApiCalls
    /\ IF ~stop_threads
       THEN UNCHANGED joined
       ELSE /\ \A i \in DOMAIN callback_threads :
                  callback_threads[i] # 0 => threads[callback_threads[i]].pc = "exited"
            /\ joined' = [t \in Tids |->
                            joined[t] + Cardinality({i \in DOMAIN callback_threads :
                                                        callback_threads[i] = t})]
    /\ api_log' = Append(api_log, "destroy")
    /\ event_buffer' = <<>>
    /\ UNCHANGED <<engine, call, config, stop_threads, events_processed, events_dropped,
                   callback_threads, threads, stopper, producer_log, handled>>

(* ------------------------------ producers ------------------------------ *)
\* mutant: a refused event is freed without being counted
event_interceptor_on_block_Uncounted(event_type, block_id, wal_offset, timestamp) ==
    /\ ~Destroyed
    /\ Len(producer_log) < MaxEvents
    /\ IF ~config.enable_interception
       THEN /\ producer_log' = Append(producer_log, [event |-> NULL, result |-> 0])
            /\ UNCHANGED <<event_buffer, events_dropped>>
       ELSE LET event == SBlockEvent(event_type, block_id, wal_offset, timestamp)
                enq == ring_buffer_enqueue(event_buffer, config.event_buffer_size, event)
            IN /\ event_buffer' = enq.buffer
               /\ events_dropped' = events_dropped
               /\ producer_log' = Append(producer_log, [event |-> event, result |-> enq.result])
    /\ UNCHANGED <<engine, call, config, stop_threads, events_processed,
                   callback_threads, threads, stopper, joined, api_log, handled>>

\* event_interceptor_on_block_create, _update, _flush and _delete: the same
\* code with the event type each one stores
event_interceptor_on_block(event_type, block_id, wal_offset, timestamp) ==
    /\ ~Destroyed
    /\ Len(producer_log) < MaxEvents
    /\ IF ~config.enable_interception
       THEN /\ producer_log' = Append(producer_log, [event |-> NULL, result |-> 0])
            /\ UNCHANGED <<event_buffer, events_dropped>>
       ELSE LET event == SBlockEvent(event_type, block_id, wal_offset, timestamp)
                enq == ring_buffer_enqueue(event_buffer, config.event_buffer_size, event)
            IN /\ event_buffer' = enq.buffer
               /\ events_dropped' = IF enq.result # 0 THEN events_dropped + 1 ELSE events_dropped
               /\ producer_log' = Append(producer_log, [event |-> event, result |-> enq.result])
    /\ UNCHANGED <<engine, call, config, stop_threads, events_processed,
                   callback_threads, threads, stopper, joined, api_log, handled>>

event_interceptor_on_block_create(block_id, wal_offset, timestamp) ==
    event_interceptor_on_block(EVENT_BLOCK_CREATE, block_id, wal_offset, timestamp)
event_interceptor_on_block_update(block_id, wal_offset, timestamp) ==
    event_interceptor_on_block(EVENT_BLOCK_UPDATE, block_id, wal_offset, timestamp)
event_interceptor_on_block_flush(block_id, wal_offset, timestamp) ==
    event_interceptor_on_block(EVENT_BLOCK_FLUSH, block_id, wal_offset, timestamp)
event_interceptor_on_block_delete(block_id, wal_offset, timestamp) ==
    event_interceptor_on_block(EVENT_BLOCK_DELETE, block_id, wal_offset, timestamp)

event_interceptor_get_stats ==
    [events_processed |-> events_processed, events_dropped |-> events_dropped]

(* ------------------------------- workers ------------------------------- *)
\* mutant: the dequeue hands out the oldest item and leaves it in the buffer
callback_thread_dequeue_Peek(t) ==
    /\ ~Destroyed
    /\ threads[t].pc = "loop"
    /\ IF stop_threads
       THEN /\ threads' = [threads EXCEPT ![t] = [pc |-> "exited", event |-> NULL]]
            /\ UNCHANGED event_buffer
       ELSE /\ event_buffer # <<>>
            /\ LET deq == ring_buffer_dequeue_blocking(event_buffer)
               IN /\ event_buffer' = event_buffer
                  /\ threads' = [threads EXCEPT ![t] = [pc |-> "handle", event |-> deq.item]]
    /\ UNCHANGED <<engine, call, config, stop_threads, events_processed, events_dropped,
                   callback_threads, stopper, joined, api_log, producer_log, handled>>

\* the loop test and the blocking dequeue of one iteration; a dequeue that
\* times out comes back here with nothing changed
callback_thread_dequeue(t) ==
    /\ ~Destroyed
    /\ threads[t].pc = "loop"
    /\ IF stop_threads
       THEN /\ threads' = [threads EXCEPT ![t] = [pc |-> "exited", event |-> NULL]]
            /\ UNCHANGED event_buffer
       ELSE /\ event_buffer # <<>>
            /\ LET deq == ring_buffer_dequeue_blocking(event_buffer)
               IN /\ event_buffer' = deq.buffer
                  /\ threads' = [threads EXCEPT ![t] = [pc |-> "handle", event |-> deq.item]]
    /\ UNCHANGED <<engine, call, config, stop_threads, events_processed, events_dropped,
                   callback_threads, stopper, joined, api_log, producer_log, handled>>

\* the rest of the iteration: the callback, events_processed++ under the
\* mutex, free(event)
callback_thread_handle(t) ==
    /\ ~Destroyed
    /\ threads[t].pc = "handle"
    /\ stopper = "idle"
    /\ LET event == threads[t].event
       IN /\ IF config.callback = BACKUP_EVENT_CALLBACK
             THEN backup_event_callback(event)
             ELSE UNCHANGED <<engine, call>>
          /\ handled' = Append(handled,
                 [event |-> event,
                  ret |-> IF config.callback = BACKUP_EVENT_CALLBACK THEN call'.ret ELSE "none"])
    /\ events_processed' = events_processed + 1
    /\ threads' = [threads EXCEPT ![t] = [pc |-> "loop", event |-> NULL]]
    /\ UNCHANGED <<config, event_buffer, stop_threads, events_dropped,
                   callback_threads, stopper, joined, api_log, producer_log>>

\* a worker that runs on after destroy reads freed memory: it may crash, may
\* read a non-zero stop_threads and return, or may find nothing to do
callback_thread_after_free(t) ==
    /\ Destroyed
    /\ Running(t)
    /\ \E outcome \in {"crashed", "exited"} :
          threads' = [threads EXCEPT ![t] = [pc |-> outcome, event |-> NULL]]
    /\ UNCHANGED <<engine, call, config, event_buffer, stop_threads, events_processed,
                   events_dropped, callback_threads, stopper, joined, api_log,
                   producer_log, handled>>

(* ======================================================================= *)
(*                     Locking of the engine's calls                       *)
(* ======================================================================= *)
NumWriters == 2        \* threads calling bitmap_engine_mark_dirty

Writers == 1..NumWriters

VARIABLES
    mutex,     \* engine->mutex: 0 when unlocked, else the writer that holds it
    rwlock,    \* engine->rwlock: the number of threads holding it for reading
    wpc,       \* writer -> where it is in bitmap_engine_mark_dirty
    wreq,      \* writer -> the arguments of its call
    rpc,       \* where the thread calling a read-only function is
    rreq,      \* the function it calls and its arguments
    robs       \* what the last finished read returned and where the writers were

locks == <<mutex, rwlock, wpc, wreq, rpc, rreq, robs>>
lvars == <<metadata_map, metadata_count, dirty_blocks, new_blocks, deleted_blocks,
           time_index, wal_index, total_blocks, dirty_count, new_count, deleted_count, call,
           config, event_buffer, stop_threads, events_processed, events_dropped,
           callback_threads, threads, stopper, joined, api_log, producer_log, handled,
           mutex, rwlock, wpc, wreq, rpc, rreq, robs>>

\* no thread is inside a call of the engine
LocksIdle ==
    /\ mutex = 0
    /\ rwlock = 0
    /\ wpc = [w \in Writers |-> "idle"]
    /\ wreq = [w \in Writers |-> NULL]
    /\ rpc = "idle"
    /\ rreq = NULL
    /\ robs = NULL

\* bitmap_engine_mark_dirty, one statement at a time

\* mutant: the call goes on without waiting for the mutex
mark_dirty_lock_NoMutex(w, block_id, wal_offset, timestamp) ==
    /\ wpc[w] = "idle"
    /\ mutex' = w
    /\ wreq' = [wreq EXCEPT ![w] = [block_id |-> block_id, wal_offset |-> wal_offset,
                                    timestamp |-> timestamp]]
    /\ wpc' = [wpc EXCEPT ![w] = "validate"]
    /\ UNCHANGED <<engine, call, rwlock, rpc, rreq, robs>>

mark_dirty_lock(w, block_id, wal_offset, timestamp) ==
    /\ wpc[w] = "idle"
    /\ mutex = 0
    /\ mutex' = w
    /\ wreq' = [wreq EXCEPT ![w] = [block_id |-> block_id, wal_offset |-> wal_offset,
                                    timestamp |-> timestamp]]
    /\ wpc' = [wpc EXCEPT ![w] = "validate"]
    /\ UNCHANGED <<engine, call, rwlock, rpc, rreq, robs>>

mark_dirty_validate(w) ==
    /\ wpc[w] = "validate"
    /\ IF bitmap_engine_validate_state_transition(current_state_of(wreq[w].block_id),
                                                  BLOCK_STATE_DIRTY) # SUCCESS
       THEN /\ mutex' = 0
            /\ wpc' = [wpc EXCEPT ![w] = "idle"]
            /\ wreq' = [wreq EXCEPT ![w] = NULL]
            /\ call' = MutatorCall("mark_dirty", wreq[w].block_id, ERR_INVALID_STATE_TRANS)
       ELSE /\ wpc' = [wpc EXCEPT ![w] = "insert_block_metadata"]
            /\ UNCHANGED <<mutex, wreq, call>>
    /\ UNCHANGED <<engine, rwlock, rpc, rreq, robs>>

mark_dirty_insert(w) ==
    /\ wpc[w] = "insert_block_metadata"
    /\ LET ins == insert_block_metadata(metadata_map, metadata_count,
                      SBlockMetadata(wreq[w].block_id, wreq[w].wal_offset, wreq[w].timestamp,
                                     BLOCK_STATE_DIRTY))
       IN /\ metadata_map' = ins.map
          /\ metadata_count' = ins.count
    /\ wpc' = [wpc EXCEPT ![w] = "add"]
    /\ UNCHANGED <<dirty_blocks, new_blocks, deleted_blocks, time_index, wal_index,
                   total_blocks, dirty_count, new_count, deleted_count, call,
                   mutex, wreq, rwlock, rpc, rreq, robs>>

mark_dirty_add(w) ==
    /\ wpc[w] = "add"
    /\ dirty_blocks' = dirty_blocks \cup {wreq[w].block_id}
    /\ wpc' = [wpc EXCEPT ![w] = "add_time_index"]
    /\ UNCHANGED <<metadata_map, metadata_count, new_blocks, deleted_blocks, time_index,
                   wal_index, total_blocks, dirty_count, new_count, deleted_count, call,
                   mutex, wreq, rwlock, rpc, rreq, robs>>

mark_dirty_time_index(w) ==
    /\ wpc[w] = "add_time_index"
    /\ time_index' = add_time_index(time_index, wreq[w].timestamp, wreq[w].block_id)
    /\ wpc' = [wpc EXCEPT ![w] = "add_wal_index"]
    /\ UNCHANGED <<metadata_map, metadata_count, dirty_blocks, new_blocks, deleted_blocks,
                   wal_index, total_blocks, dirty_count, new_count, deleted_count, call,
                   mutex, wreq, rwlock, rpc, rreq, robs>>

mark_dirty_wal_index(w) ==
    /\ wpc[w] = "add_wal_index"
    /\ wal_index' = add_wal_index(wal_index, wreq[w].wal_offset, wreq[w].block_id)
    /\ wpc' = [wpc EXCEPT ![w] = "unlock"]
    /\ UNCHANGED <<metadata_map, metadata_count, dirty_blocks, new_blocks, deleted_blocks,
                   time_index, total_blocks, dirty_count, new_count, deleted_count, call,
                   mutex, wreq, rwlock, rpc, rreq, robs>>

\* the counters, the unlock and the return
mark_dirty_unlock(w) ==
    /\ wpc[w] = "unlock"
    /\ dirty_count' = dirty_count + 1
    /\ total_blocks' = total_blocks + 1
    /\ mutex' = 0
    /\ wpc' = [wpc EXCEPT ![w] = "idle"]
    /\ wreq' = [wreq EXCEPT ![w] = NULL]
    /\ call' = MutatorCall("mark_dirty", wreq[w].block_id, SUCCESS)
    /\ UNCHANGED <<metadata_map, metadata_count, dirty_blocks, new_blocks, deleted_blocks,
                   time_index, wal_index, new_count, deleted_count,
                   rwlock, rpc, rreq, robs>>

\* some writer holds engine->mutex
InWrite == \E w \in Writers : wpc[w] # "idle"

\* bitmap_engine_get_block_metadata and bitmap_engine_get_dirty_blocks_by_wal:
\* pthread_rwlock_rdlock, the read, pthread_rwlock_unlock
read_rdlock(op, block_id) ==
    /\ rpc = "idle"
    /\ rwlock' = rwlock + 1
    /\ rreq' = [op |-> op, block_id |-> block_id]
    /\ rpc' = "read"
    /\ UNCHANGED <<engine, call, mutex, wpc, wreq, robs>>

read_result ==
    /\ rpc = "read"
    /\ robs' = [op |-> rreq.op,
                block_id |-> rreq.block_id,
                result |-> IF rreq.op = "get_block_metadata"
                           THEN bitmap_engine_get_block_metadata(rreq.block_id)
                           ELSE bitmap_engine_get_dirty_blocks_by_wal(0, NumWal + 1, MaxCount),
                writer |-> {wpc[w] : w \in Writers}]
    /\ rpc' = "unlock"
    /\ UNCHANGED <<engine, call, mutex, rwlock, wpc, wreq, rreq>>

read_unlock ==
    /\ rpc = "unlock"
    /\ rwlock' = rwlock - 1
    /\ rpc' = "idle"
    /\ rreq' = NULL
    /\ UNCHANGED <<engine, call, mutex, wpc, wreq, robs>>

\* the reader holds engine->rwlock
InRead == rpc # "idle"

(* ======================================================================= *)
(*                          Backup coordinator                             *)
(* ======================================================================= *)
\* ECursorType
CURSOR_TYPE_TIME == 0
CURSOR_TYPE_WAL == 1
CURSOR_TYPE_HYBRID == 2
ECursorType == {CURSOR_TYPE_TIME, CURSOR_TYPE_WAL, CURSOR_TYPE_HYBRID}

\* the block total create_cursor stores when the WAL range has a dirty block
ESTIMATED_BLOCK_COUNT == 1000

\* the ranges [lo, hi] a backup driver asks for
WalRanges == {r \in WalOffsets \X WalOffsets : r[1] <= r[2]}
TimeRanges == {r \in Timestamps \X Timestamps : r[1] <= r[2]}
BatchSizes == 1..MaxCount
MaxCursorBlocks == 3     \* the blocks after which a driver leaves a cursor alone
MaxBackupBlocks == 2     \* longest block array handed to validate_backup
BackupBlocks == UNION {[1..n -> BlockIds] : n \in 0..MaxBackupBlocks}

VARIABLES
    cursor,      \* the SIncrementalCursor in use, NULL when there is none
    batch,       \* what the last get_next_batch call returned
    delivered,   \* block id -> the batches of this cursor that held it (2: two or more)
    heap         \* "ok", or "corrupted" once a write past an array did damage

coordinator == <<cursor, batch, delivered, heap>>

NoCursor ==
    /\ cursor = NULL
    /\ batch = NULL
    /\ delivered = [b \in BlockIds |-> 0]
    /\ heap = "ok"

SIncrementalCursor(type, start_time, end_time, start_wal, end_wal, block_count) ==
    [type |-> type, start_time |-> start_time, end_time |-> end_time,
     start_wal |-> start_wal, end_wal |-> end_wal,
     current_block |-> 0, block_count |-> block_count, has_more |-> TRUE]

SIncrementalBlock(block_id, metadata) ==
    [block_id |-> block_id, wal_offset |-> metadata.wal_offset,
     timestamp |-> metadata.timestamp, state |-> metadata.state,
     data |-> NULL, data_size |-> 0]

\* a query that stored ids past the end of the caller's array: the program
\* goes on unharmed or its memory is damaged
AfterQuery(r) ==
    IF r.past = <<>> THEN heap' = heap ELSE heap' \in {"ok", "corrupted"}

backup_coordinator_create_cursor(cursor_type, start_time, end_time, start_wal, end_wal) ==
    /\ heap = "ok"
    /\ cursor = NULL
    /\ LET r == bitmap_engine_get_dirty_blocks_by_wal(start_wal, end_wal, 1)
       IN /\ cursor' = SIncrementalCursor(cursor_type, start_time, end_time, start_wal, end_wal,
                           IF r.count > 0 THEN ESTIMATED_BLOCK_COUNT ELSE 0)
          /\ AfterQuery(r)
    /\ UNCHANGED <<engine, call, batch, delivered>>

backup_coordinator_destroy_cursor ==
    /\ heap = "ok"
    /\ cursor # NULL
    /\ cursor' = NULL
    /\ batch' = NULL
    /\ delivered' = [b \in BlockIds |-> 0]
    /\ UNCHANGED <<engine, call, heap>>

\* blocks[i] for the i-th id of the query; the slot keeps whatever it held
\* when the metadata lookup fails
FillBlock(block_id) ==
    LET got == bitmap_engine_get_block_metadata(block_id)
    IN IF got.ret = SUCCESS
       THEN SIncrementalBlock(block_id, got.metadata)
       ELSE [block_id |-> "uninitialized"]

backup_coordinator_get_next_batch(max_count) ==
    /\ heap = "ok"
    /\ cursor # NULL
    /\ IF max_count = 0 \/ ~cursor.has_more
       THEN /\ batch' = [count |-> 0, blocks |-> <<>>]
            /\ UNCHANGED <<cursor, delivered, heap>>
       ELSE LET r == bitmap_engine_get_dirty_blocks_by_wal(cursor.start_wal, cursor.end_wal,
                                                           max_count)
                count == r.count
                current_block == cursor.current_block + count
            IN /\ batch' = [count |-> count,
                            blocks |-> [i \in 1..count |-> FillBlock(r.array[i])]]
               /\ cursor' = [cursor EXCEPT
                               !.current_block = current_block,
                               !.has_more = IF current_block >= cursor.block_count
                                               \/ count < max_count
                                            THEN FALSE ELSE @]
               /\ delivered' = [b \in BlockIds |->
                                  IF \E i \in 1..count : r.array[i] = b
                                  THEN (IF delivered[b] = 0 THEN 1 ELSE 2)
                                  ELSE delivered[b]]
               /\ AfterQuery(r)
    /\ UNCHANGED <<engine, call>>

\* mutant: only the lower end of the WAL range is tested
backup_coordinator_validate_backup_LowerOnly(start_wal, end_wal, blocks) ==
    IF \E i \in DOMAIN blocks :
          LET got == bitmap_engine_get_block_metadata(blocks[i])
          IN \/ got.ret # SUCCESS
             \/ got.metadata.wal_offset < start_wal
    THEN -1
    ELSE 0

\* blocks: the block_id fields of the caller's SIncrementalBlock array
backup_coordinator_validate_backup(start_wal, end_wal, blocks) ==
    IF \E i \in DOMAIN blocks :
          LET got == bitmap_engine_get_block_metadata(blocks[i])
          IN \/ got.ret # SUCCESS
             \/ got.metadata.wal_offset < start_wal
             \/ got.metadata.wal_offset > end_wal
    THEN -1
    ELSE 0

(* ------------------------------- retries ------------------------------- *)
MaxRetry == 3          \* largest config.error_retry_max
MaxOperations == 2     \* retried operations in one run

\* error codes
BACKUP_SUCCESS == 0
BACKUP_ERROR_INVALID_PARAM == -1
BACKUP_ERROR_INIT_FAILED == -2
BACKUP_ERROR_NOT_INITIALIZED == -3
BACKUP_ERROR_MEMORY_ALLOC == -4
BACKUP_ERROR_FILE_IO == -5
BACKUP_ERROR_NETWORK == -6
BACKUP_ERROR_TIMEOUT == -7
BACKUP_ERROR_DATA_CORRUPTION == -8
BACKUP_ERROR_PERMISSION_DENIED == -9
BACKUP_ERROR_DISK_FULL == -10
BACKUP_ERROR_CONNECTION_LOST == -11
BACKUP_ERROR_RETRY_EXHAUSTED == -12
BACKUP_ERROR_UNKNOWN == -99

\* what an operation handed to backup_execute_with_retry may return
OperationResults ==
    {BACKUP_SUCCESS, BACKUP_ERROR_INVALID_PARAM, BACKUP_ERROR_INIT_FAILED,
     BACKUP_ERROR_NOT_INITIALIZED, BACKUP_ERROR_MEMORY_ALLOC, BACKUP_ERROR_FILE_IO,
     BACKUP_ERROR_NETWORK, BACKUP_ERROR_TIMEOUT, BACKUP_ERROR_DATA_CORRUPTION,
     BACKUP_ERROR_PERMISSION_DENIED, BACKUP_ERROR_DISK_FULL, BACKUP_ERROR_CONNECTION_LOST,
     BACKUP_ERROR_UNKNOWN}

\* what file_write_operation returns
FileWriteResults == {BACKUP_SUCCESS, BACKUP_ERROR_FILE_IO}

\* ERetryState
RETRY_STATE_IDLE == 0
RETRY_STATE_RETRYING == 1
RETRY_STATE_SUCCESS == 2
RETRY_STATE_FAILED == 3

VARIABLES
    retry_context,   \* SRetryContext: current_retry, max_retry, state, last_error
    error_count,     \* the coordinator's counters
    retry_count,
    running,         \* the backup_execute_with_retry call in progress, NULL when none
    finished         \* the retried calls that have returned, in order

retries == <<retry_context, error_count, retry_count, running, finished>>

\* mutant: PermissionDenied is retried too
is_retryable_error_PermissionDenied(error_code) ==
    error_code \in {BACKUP_ERROR_NETWORK, BACKUP_ERROR_TIMEOUT,
                    BACKUP_ERROR_CONNECTION_LOST, BACKUP_ERROR_FILE_IO,
                    BACKUP_ERROR_PERMISSION_DENIED}

is_retryable_error(error_code) ==
    error_code \in {BACKUP_ERROR_NETWORK, BACKUP_ERROR_TIMEOUT,
                    BACKUP_ERROR_CONNECTION_LOST, BACKUP_ERROR_FILE_IO}

backup_retry_context_init(max_retry) ==
    [current_retry |-> 0, max_retry |-> max_retry,
     state |-> RETRY_STATE_IDLE, last_error |-> BACKUP_SUCCESS]

\* the part of backup_coordinator_init that sets up retrying and the counters
RetryInit(max_retry) ==
    /\ retry_context = backup_retry_context_init(max_retry)
    /\ error_count = 0
    /\ retry_count = 0
    /\ running = NULL
    /\ finished = <<>>

\* the call of running has returned result; backup_write_file_with_retry
\* records a failure with backup_record_error
Returned(r, result) ==
    /\ running' = NULL
    /\ finished' = Append(finished, [r EXCEPT !.result = result])
    /\ error_count' = IF r.caller = "write_file" /\ result # BACKUP_SUCCESS
                      THEN error_count + 1
                      ELSE error_count
    /\ UNCHANGED retry_count

\* backup_execute_with_retry up to the first call of the operation. caller is
\* "execute" for a direct call and "write_file" for backup_write_file_with_retry.
\* calls, sleeps: the operation's calls and the waits of this call so far;
\* first, last: the operation's first and latest result, once calls > 0;
\* result: what backup_execute_with_retry returned, once it is in finished.
backup_execute_with_retry_enter(caller) ==
    /\ running = NULL
    /\ Len(finished) < MaxOperations
    /\ LET r == [caller |-> caller, calls |-> 0, sleeps |-> 0,
                 first |-> BACKUP_SUCCESS, last |-> BACKUP_SUCCESS,
                 result |-> BACKUP_SUCCESS]
       IN IF 0 <= retry_context.max_retry
          THEN /\ retry_context' = [retry_context EXCEPT !.state = RETRY_STATE_RETRYING,
                                                         !.current_retry = 0]
               /\ running' = r
               /\ UNCHANGED <<error_count, retry_count, finished>>
          ELSE /\ retry_context' = [retry_context EXCEPT !.state = RETRY_STATE_FAILED,
                                                         !.current_retry = 0]
               /\ Returned(r, BACKUP_ERROR_RETRY_EXHAUSTED)

\* mutant: every failure is retried while retries are left
backup_execute_with_retry_loop_RetryAll(result) ==
    /\ running # NULL
    /\ LET r == [running EXCEPT !.calls = @ + 1,
                                !.first = IF running.calls = 0 THEN result ELSE @,
                                !.last = result]
       IN IF result = BACKUP_SUCCESS
          THEN /\ retry_context' = [retry_context EXCEPT !.state = RETRY_STATE_SUCCESS]
               /\ Returned(r, BACKUP_SUCCESS)
          ELSE IF retry_context.current_retry >= retry_context.max_retry
          THEN /\ retry_context' = [retry_context EXCEPT !.last_error = result,
                                                         !.state = RETRY_STATE_FAILED]
               /\ Returned(r, result)
          ELSE /\ retry_context' = [retry_context EXCEPT !.last_error = result,
                                                         !.current_retry = @ + 1]
               /\ running' = [r EXCEPT !.sleeps = @ + 1]
               /\ UNCHANGED <<error_count, retry_count, finished>>

\* mutant: a failure that ends the call leaves the state at RETRYING
backup_execute_with_retry_loop_StateKept(result) ==
    /\ running # NULL
    /\ LET r == [running EXCEPT !.calls = @ + 1,
                                !.first = IF running.calls = 0 THEN result ELSE @,
                                !.last = result]
       IN IF result = BACKUP_SUCCESS
          THEN /\ retry_context' = [retry_context EXCEPT !.state = RETRY_STATE_SUCCESS]
               /\ Returned(r, BACKUP_SUCCESS)
          ELSE IF ~is_retryable_error(result)
                  \/ retry_context.current_retry >= retry_context.max_retry
          THEN /\ retry_context' = [retry_context EXCEPT !.last_error = result]
               /\ Returned(r, result)
          ELSE /\ retry_context' = [retry_context EXCEPT !.last_error = result,
                                                         !.current_retry = @ + 1]
               /\ running' = [r EXCEPT !.sleeps = @ + 1]
               /\ UNCHANGED <<error_count, retry_count, finished>>

\* one turn of the loop of backup_execute_with_retry: the operation is called
\* and returns result; the turn ends with the return or, after the wait of
\* backup_wait_for_retry, with the loop test
backup_execute_with_retry_loop(result) ==
    /\ running # NULL
    /\ LET r == [running EXCEPT !.calls = @ + 1,
                                !.first = IF running.calls = 0 THEN result ELSE @,
                                !.last = result]
       IN IF result = BACKUP_SUCCESS
          THEN /\ retry_context' = [retry_context EXCEPT !.state = RETRY_STATE_SUCCESS]
               /\ Returned(r, BACKUP_SUCCESS)
          ELSE IF ~is_retryable_error(result)
                  \/ retry_context.current_retry >= retry_context.max_retry
          THEN /\ retry_context' = [retry_context EXCEPT !.last_error = result,
                                                         !.state = RETRY_STATE_FAILED]
               /\ Returned(r, result)
          ELSE IF retry_context.current_retry + 1 <= retry_context.max_retry
          THEN /\ retry_context' = [retry_context EXCEPT !.last_error = result,
                                                         !.current_retry = @ + 1]
               /\ running' = [r EXCEPT !.sleeps = @ + 1]
               /\ UNCHANGED <<error_count, retry_count, finished>>
          ELSE /\ retry_context' = [retry_context EXCEPT !.last_error = result,
                                                         !.current_retry = @ + 1,
                                                         !.state = RETRY_STATE_FAILED]
               /\ Returned([r EXCEPT !.sleeps = @ + 1], BACKUP_ERROR_RETRY_EXHAUSTED)

backup_get_error_stats == [error_count |-> error_count, retry_count |-> retry_count]

(* ---------------------- storage engine registry ------------------------ *)
EngineNames == {"tdengine", "mock", "rocksdb"}   \* names a caller registers or asks for
Factories == {"factory1", "factory2"}            \* the factories a caller registers
NO_NAME == "NULL"                                \* a null name pointer
NO_FACTORY == "NULL"                             \* a null factory pointer, an empty slot

VARIABLES
    g_registry,            \* the entries, in order of registration
    g_registry_capacity,
    registry_call,         \* the last call of the registry's interface and its result
    registered             \* name -> the factories of its last two successful registrations

registry == <<g_registry, g_registry_capacity, registry_call, registered>>

g_registry_size == Len(g_registry)

\* the history of a name after one more successful registration
Registered(history, factory) ==
    IF history = <<>> THEN <<factory>> ELSE <<history[Len(history)], factory>>

\* the interface a factory hands out
InterfaceOf(factory) == [made_by |-> factory]

default_is_supported == FALSE
g_default_interface == [made_by |-> "default", is_supported |-> default_is_supported]

NoRegistry ==
    /\ g_registry = <<>>
    /\ g_registry_capacity = 0
    /\ registry_call = NULL
    /\ registered = [n \in EngineNames |-> <<>>]

\* mutant: a name already in the registry keeps its first factory
register_storage_engine_interface_KeepFirst(name, factory, realloc_ok) ==
    IF name = NO_NAME \/ factory = NO_FACTORY
    THEN /\ registry_call' = [op |-> "register", name |-> name, ret |-> -1]
         /\ UNCHANGED <<g_registry, g_registry_capacity, registered>>
    ELSE IF \E i \in 1..g_registry_size : g_registry[i].name = name
    THEN /\ registry_call' = [op |-> "register", name |-> name, ret |-> 0]
         /\ registered' = [registered EXCEPT ![name] = Registered(@, factory)]
         /\ UNCHANGED <<g_registry, g_registry_capacity>>
    ELSE IF g_registry_size >= g_registry_capacity /\ ~realloc_ok
    THEN /\ registry_call' = [op |-> "register", name |-> name, ret |-> -1]
         /\ UNCHANGED <<g_registry, g_registry_capacity, registered>>
    ELSE /\ g_registry_capacity' =
                IF g_registry_size >= g_registry_capacity
                THEN (IF g_registry_capacity = 0 THEN 4 ELSE g_registry_capacity * 2)
                ELSE g_registry_capacity
         /\ g_registry' = Append(g_registry, [name |-> name, factory |-> factory])
         /\ registered' = [registered EXCEPT ![name] = Registered(@, factory)]
         /\ registry_call' = [op |-> "register", name |-> name, ret |-> 0]

\* realloc_ok: whether realloc, when the registry has to grow, succeeds
register_storage_engine_interface(name, factory, realloc_ok) ==
    IF name = NO_NAME \/ factory = NO_FACTORY
    THEN /\ registry_call' = [op |-> "register", name |-> name, ret |-> -1]
         /\ UNCHANGED <<g_registry, g_registry_capacity, registered>>
    ELSE IF \E i \in 1..g_registry_size : g_registry[i].name = name
    THEN LET i == CHOOSE j \in 1..g_registry_size :
                     /\ g_registry[j].name = name
                     /\ \A k \in 1..(j - 1) : g_registry[k].name # name
         IN /\ g_registry' = [g_registry EXCEPT ![i].factory = factory]
            /\ registered' = [registered EXCEPT ![name] = Registered(@, factory)]
            /\ registry_call' = [op |-> "register", name |-> name, ret |-> 0]
            /\ UNCHANGED g_registry_capacity
    ELSE IF g_registry_size >= g_registry_capacity /\ ~realloc_ok
    THEN /\ registry_call' = [op |-> "register", name |-> name, ret |-> -1]
         /\ UNCHANGED <<g_registry, g_registry_capacity, registered>>
    ELSE /\ g_registry_capacity' =
                IF g_registry_size >= g_registry_capacity
                THEN (IF g_registry_capacity = 0 THEN 4 ELSE g_registry_capacity * 2)
                ELSE g_registry_capacity
         /\ g_registry' = Append(g_registry, [name |-> name, factory |-> factory])
         /\ registered' = [registered EXCEPT ![name] = Registered(@, factory)]
         /\ registry_call' = [op |-> "register", name |-> name, ret |-> 0]

get_default_storage_engine_interface == g_default_interface

get_storage_engine_interface(name) ==
    /\ registry_call' =
          [op |-> "get", name |-> name,
           ret |-> IF name = NO_NAME
                   THEN get_default_storage_engine_interface
                   ELSE IF \E i \in 1..g_registry_size : g_registry[i].name = name
                   THEN LET i == CHOOSE j \in 1..g_registry_size :
                                    /\ g_registry[j].name = name
                                    /\ \A k \in 1..(j - 1) : g_registry[k].name # name
                        IN InterfaceOf(g_registry[i].factory)
                   ELSE get_default_storage_engine_interface]
    /\ UNCHANGED <<g_registry, g_registry_capacity, registered>>

cleanup_storage_engine_registry ==
    /\ registry_call # NULL
    /\ registry_call' = [op |-> "cleanup", name |-> NO_NAME, ret |-> 0]
    /\ IF g_registry_capacity # 0
       THEN /\ g_registry' = <<>>
            /\ g_registry_capacity' = 0
       ELSE UNCHANGED <<g_registry, g_registry_capacity>>
    /\ registered' = [n \in EngineNames |-> <<>>]


(* --------------------------- archive blocks ---------------------------- *)
MaxBody == 2
BodyBytes == {0, 255}
Bodies == UNION {[1..n -> BodyBytes] : n \in 0..MaxBody}
BlockTypes == {1, 2, 3}
MsgTypes == {1, 258}
BufSizes == {1, MaxBody}

VARIABLES
    archive,      \* the bytes of the file behind fp
    fpos,         \* the reader's position in the file
    archive_pc,   \* "empty", "block_written", "closed", "block_read", "done"
    written,      \* what the writer was given and what its calls returned
    reader,       \* what the reader's calls returned and stored
    tampered      \* a payload byte was changed after the file was closed

archives == <<archive, fpos, archive_pc, written, reader, tampered>>

\* fwrite / fread of an n-byte unsigned field on a little-endian build
LittleEndian(value, n) == [i \in 1..n |-> (value \div (256 ^ (i - 1))) % 256]

RECURSIVE FromLittleEndian(_)
FromLittleEndian(bytes) ==
    IF bytes = <<>> THEN 0 ELSE Head(bytes) + 256 * FromLittleEndian(Tail(bytes))

RECURSIVE Xor(_, _)
Xor(a, b) ==
    IF a = 0 THEN b
    ELSE IF b = 0 THEN a
    ELSE ((a + b) % 2) + 2 * Xor(a \div 2, b \div 2)

\* CRC-32 (reflected polynomial EDB88320) over 32-bit words held as four
\* little-endian bytes
CrcPoly == <<32, 131, 184, 237>>
CrcOnes == <<255, 255, 255, 255>>
Xor32(x, y) == [i \in 1..4 |-> Xor(x[i], y[i])]
CrcShift(c) ==
    LET shifted == [i \in 1..4 |-> (c[i] \div 2) + (IF i < 4 THEN (c[i + 1] % 2) * 128 ELSE 0)]
    IN  IF c[1] % 2 = 1 THEN Xor32(shifted, CrcPoly) ELSE shifted

RECURSIVE CrcBits(_, _)
CrcBits(c, n) == IF n = 0 THEN c ELSE CrcBits(CrcShift(c), n - 1)

RECURSIVE CrcBytes(_, _)
CrcBytes(c, buf) ==
    IF buf = <<>> THEN c
    ELSE CrcBytes(CrcBits([c EXCEPT ![1] = Xor(c[1], Head(buf))], 8), Tail(buf))

crc32(crc, buf) == Xor32(CrcBytes(Xor32(crc, CrcOnes), buf), CrcOnes)

NoArchive ==
    /\ archive = <<>>
    /\ fpos = 0
    /\ archive_pc = "empty"
    /\ written = NULL
    /\ reader = NULL
    /\ tampered = FALSE

write_taosx_backup_block(block, msg_body) ==
    /\ archive_pc = "empty"
    /\ archive' = archive \o LittleEndian(block.block_type, 1) \o LittleEndian(block.msg_len, 4)
                          \o LittleEndian(block.msg_type, 2)
                          \o (IF block.msg_len > 0 THEN SubSeq(msg_body, 1, block.msg_len) ELSE <<>>)
    /\ written' = [block |-> block, body |-> msg_body, block_ret |-> 0, crc_ret |-> 0]
    /\ archive_pc' = "block_written"
    /\ UNCHANGED <<fpos, reader, tampered>>

write_taosx_body_crc32(body_buf, body_len) ==
    /\ archive_pc = "block_written"
    /\ IF body_len = 0
       THEN /\ written' = [written EXCEPT !.crc_ret = -1]
            /\ UNCHANGED archive
       ELSE /\ archive' = archive \o crc32(<<0, 0, 0, 0>>, SubSeq(body_buf, 1, body_len))
            /\ UNCHANGED written
    /\ archive_pc' = "closed"
    /\ UNCHANGED <<fpos, reader, tampered>>

read_taosx_backup_block(buf_size) ==
    LET block_type == FromLittleEndian(SubSeq(archive, fpos + 1, fpos + 1))
        msg_len == FromLittleEndian(SubSeq(archive, fpos + 2, fpos + 5))
        msg_type == FromLittleEndian(SubSeq(archive, fpos + 6, fpos + 7))
        block == [block_type |-> block_type, msg_len |-> msg_len, msg_type |-> msg_type]
    IN  /\ archive_pc = "closed"
        /\ IF fpos + 7 > Len(archive)
           THEN /\ reader' = [block_ret |-> -1, crc_ret |-> 0, block |-> NULL, body |-> <<>>,
                              crc |-> <<>>]
                /\ fpos' = Len(archive)
           ELSE IF msg_len > 0 /\ buf_size < msg_len
           THEN /\ reader' = [block_ret |-> -1, crc_ret |-> 0, block |-> block, body |-> <<>>,
                              crc |-> <<>>]
                /\ fpos' = fpos + 7
           ELSE IF fpos + 7 + msg_len > Len(archive)
           THEN /\ reader' = [block_ret |-> -1, crc_ret |-> 0, block |-> block, body |-> <<>>,
                              crc |-> <<>>]
                /\ fpos' = Len(archive)
           ELSE /\ reader' = [block_ret |-> 0, crc_ret |-> 0, block |-> block,
                              body |-> SubSeq(archive, fpos + 8, fpos + 7 + msg_len),
                              crc |-> <<>>]
                /\ fpos' = fpos + 7 + msg_len
        /\ archive_pc' = IF reader'.block_ret = 0 THEN "block_read" ELSE "done"
        /\ UNCHANGED <<archive, written, tampered>>

read_taosx_body_crc32 ==
    /\ archive_pc = "block_read"
    /\ IF fpos + 4 <= Len(archive)
       THEN /\ reader' = [reader EXCEPT !.crc = SubSeq(archive, fpos + 1, fpos + 4)]
            /\ fpos' = fpos + 4
       ELSE /\ reader' = [reader EXCEPT !.crc_ret = -1]
            /\ fpos' = Len(archive)
    /\ archive_pc' = "done"
    /\ UNCHANGED <<archive, written, tampered>>


(* ------------------------ concurrent file writes ----------------------- *)
NumFileWriters == 2
FileWriters == 1..NumFileWriters
MaxWriterRetry == 1    \* largest error_retry_max of the concurrent runs
NO_PATH == 0           \* a NULL file_path or data; writer w passes path w and data w

VARIABLES
    ctx,          \* the static SFileWriteContext of backup_write_file_with_retry
    file_writer,  \* writer -> where its call stands and what it did
    files         \* path -> the data last written to it, NO_PATH when never written

file_writes == <<ctx, file_writer, files>>

(* ------------------------------- plugin -------------------------------- *)
MaxInits == 3          \* backup_plugin_init calls that build components
Generations == 1..MaxInits
Components == {"bitmap_engine", "event_interceptor", "coordinator"}

\* the step of backup_plugin_init that fails: an allocation, the first
\* pthread_create of event_interceptor_start, or its second
InitFailures == {"none", "bitmap_engine_init", "event_interceptor_init",
                 "backup_coordinator_init", "pthread_create_1", "pthread_create_2"}

\* what reading a pointer out of the freed coordinator yields: the pointer that
\* was stored, NULL, or an address whose use ends the process
StaleReads == {"intact", "null", "fault"}

VARIABLES
    g_backup_coordinator,   \* NULL, or [generation |-> k] for the k-th coordinator built
    components,             \* generation -> component -> "none", "live", "freed"
    destroys,               \* generation -> component -> destroy calls made on it
    process,                \* "running", "hung" (g_plugin_mutex is never released), "crashed"
    plugin_call             \* the last entry point that returned

plugin == <<g_backup_coordinator, components, destroys, process, plugin_call>>

NoPlugin ==
    /\ g_backup_coordinator = NULL
    /\ components = [k \in Generations |-> [c \in Components |-> "none"]]
    /\ destroys = [k \in Generations |-> [c \in Components |-> 0]]
    /\ process = "running"
    /\ plugin_call = NULL

PluginReturn(op, ret, stale_reads) ==
    [op |-> op, ret |-> ret, initialized |-> g_backup_coordinator # NULL,
     stale_reads |-> stale_reads]

Built == Cardinality({k \in Generations : components[k]["bitmap_engine"] # "none"})

\* generation k after its components in made were created and those in
\* destroyed were handed to their destroy function
Lifecycle(k, made, destroyed) ==
    /\ components' = [components EXCEPT ![k] =
                         [c \in Components |-> IF c \in destroyed THEN "freed"
                                               ELSE IF c \in made THEN "live"
                                               ELSE @[c]]]
    /\ destroys' = [destroys EXCEPT ![k] =
                         [c \in Components |-> IF c \in destroyed THEN @[c] + 1 ELSE @[c]]]

get_error_message(error_code) ==
    CASE error_code = BACKUP_SUCCESS -> "Success"
      [] error_code = BACKUP_ERROR_INVALID_PARAM -> "Invalid parameter"
      [] error_code = BACKUP_ERROR_INIT_FAILED -> "Initialization failed"
      [] error_code = BACKUP_ERROR_NOT_INITIALIZED -> "Not initialized"
      [] error_code = BACKUP_ERROR_MEMORY_ALLOC -> "Memory allocation failed"
      [] error_code = BACKUP_ERROR_FILE_IO -> "File I/O error"
      [] error_code = BACKUP_ERROR_NETWORK -> "Network error"
      [] error_code = BACKUP_ERROR_TIMEOUT -> "Operation timeout"
      [] error_code = BACKUP_ERROR_DATA_CORRUPTION -> "Data corruption detected"
      [] error_code = BACKUP_ERROR_PERMISSION_DENIED -> "Permission denied"
      [] error_code = BACKUP_ERROR_DISK_FULL -> "Disk full"
      [] error_code = BACKUP_ERROR_CONNECTION_LOST -> "Connection lost"
      [] error_code = BACKUP_ERROR_RETRY_EXHAUSTED -> "Retry attempts exhausted"
      [] OTHER -> "Unknown error"

backup_coordinator_estimate_size(start_wal, end_wal) ==
    LET count == bitmap_engine_get_dirty_blocks_by_wal(start_wal, end_wal, 1).count
    IN [ret |-> 0, estimated_blocks |-> count * 1000,
        estimated_size |-> count * 1000 * 1024 * 1024]

\* mutant: a call on an initialized plugin builds a second coordinator
backup_plugin_init_Again ==
    /\ process = "running"
    /\ Built < MaxInits
    /\ Lifecycle(Built + 1, Components, {})
    /\ g_backup_coordinator' = [generation |-> Built + 1]
    /\ retry_context' = backup_retry_context_init(10)
    /\ error_count' = 0
    /\ retry_count' = 0
    /\ plugin_call' = PluginReturn("init", 0, 0)
    /\ UNCHANGED <<process, running, finished>>
    /\ UNCHANGED <<lvars, coordinator, registry, archives, file_writes>>

\* every entry point runs between pthread_mutex_lock(&g_plugin_mutex) and the
\* unlock before its return, so each is one step. The engine a successful init
\* builds is empty, as the one before it was: no entry point marks a block.
backup_plugin_init ==
    /\ process = "running"
    /\ g_backup_coordinator = NULL => Built < MaxInits
    /\ \E fail \in InitFailures :
          LET k == Built + 1
              coordinator_init ==
                 /\ retry_context' = backup_retry_context_init(10)
                 /\ error_count' = 0
                 /\ retry_count' = 0
          IN IF g_backup_coordinator # NULL
             THEN /\ plugin_call' = PluginReturn("init", -1, 0)
                  /\ UNCHANGED <<g_backup_coordinator, components, destroys, process,
                                 retry_context, error_count, retry_count>>
             ELSE IF fail = "bitmap_engine_init"
             THEN /\ plugin_call' = PluginReturn("init", -1, 0)
                  /\ UNCHANGED <<g_backup_coordinator, components, destroys, process,
                                 retry_context, error_count, retry_count>>
             ELSE IF fail = "event_interceptor_init"
             THEN /\ Lifecycle(k, {"bitmap_engine"}, {"bitmap_engine"})
                  /\ plugin_call' = PluginReturn("init", -1, 0)
                  /\ UNCHANGED <<g_backup_coordinator, process,
                                 retry_context, error_count, retry_count>>
             ELSE IF fail = "backup_coordinator_init"
             THEN /\ Lifecycle(k, {"bitmap_engine", "event_interceptor"},
                               {"bitmap_engine", "event_interceptor"})
                  /\ plugin_call' = PluginReturn("init", -1, 0)
                  /\ UNCHANGED <<g_backup_coordinator, process,
                                 retry_context, error_count, retry_count>>
             ELSE IF fail = "pthread_create_1"
             THEN \* event_interceptor_start returns -1 with no worker created
                  /\ Lifecycle(k, Components, Components)
                  /\ coordinator_init
                  /\ plugin_call' = PluginReturn("init", -1, 0)
                  /\ UNCHANGED <<g_backup_coordinator, process>>
             ELSE IF fail = "pthread_create_2"
             THEN \* event_interceptor_start joins the first worker, which loops
                  \* until stop_threads is set: it never returns
                  /\ Lifecycle(k, Components, {})
                  /\ coordinator_init
                  /\ g_backup_coordinator' = [generation |-> k]
                  /\ process' = "hung"
                  /\ UNCHANGED plugin_call
             ELSE /\ Lifecycle(k, Components, {})
                  /\ coordinator_init
                  /\ g_backup_coordinator' = [generation |-> k]
                  /\ plugin_call' = PluginReturn("init", 0, 0)
                  /\ UNCHANGED process
    /\ UNCHANGED <<running, finished>>
    /\ UNCHANGED <<lvars, coordinator, registry, archives, file_writes>>

\* event_interceptor_stop returns at its first test, backup_coordinator_destroy
\* frees the coordinator (its active_cursor is never set), and the arguments of
\* the two destroy calls that follow are read out of the freed coordinator
backup_plugin_cleanup ==
    /\ process = "running"
    /\ IF g_backup_coordinator = NULL
       THEN /\ plugin_call' = PluginReturn("cleanup", 0, 0)
            /\ UNCHANGED <<g_backup_coordinator, components, destroys, process>>
       ELSE \E read \in StaleReads :
               LET k == g_backup_coordinator.generation
               IN CASE read = "intact" ->
                         /\ Lifecycle(k, {}, Components)
                         /\ g_backup_coordinator' = NULL
                         /\ plugin_call' = PluginReturn("cleanup", 0, 2)
                         /\ UNCHANGED process
                    [] read = "null" ->
                         /\ Lifecycle(k, {}, {"coordinator"})
                         /\ g_backup_coordinator' = NULL
                         /\ plugin_call' = PluginReturn("cleanup", 0, 2)
                         /\ UNCHANGED process
                    [] read = "fault" ->
                         /\ Lifecycle(k, {}, {"coordinator"})
                         /\ process' = "crashed"
                         /\ UNCHANGED <<g_backup_coordinator, plugin_call>>
    /\ UNCHANGED <<lvars, coordinator, retries, registry, archives, file_writes>>

backup_plugin_get_dirty_blocks ==
    /\ process = "running"
    /\ \E r \in WalRanges, max_count \in MaxCounts :
          plugin_call' = PluginReturn("get_dirty_blocks",
                             IF g_backup_coordinator = NULL
                             THEN 0
                             ELSE bitmap_engine_get_dirty_blocks_by_wal(r[1], r[2], max_count).count,
                             0)
    /\ UNCHANGED <<g_backup_coordinator, components, destroys, process>>
    /\ UNCHANGED <<lvars, coordinator, retries, registry, archives, file_writes>>

backup_plugin_create_incremental_cursor ==
    /\ process = "running"
    /\ \E cursor_type \in ECursorType, t \in TimeRanges, r \in WalRanges :
          IF g_backup_coordinator = NULL
          THEN /\ plugin_call' = PluginReturn("create_incremental_cursor", NULL, 0)
               /\ UNCHANGED <<lvars, coordinator>>
          ELSE /\ backup_coordinator_create_cursor(cursor_type, t[1], t[2], r[1], r[2])
               /\ plugin_call' = PluginReturn("create_incremental_cursor", cursor', 0)
               /\ UNCHANGED <<interceptor, locks>>
    /\ UNCHANGED <<g_backup_coordinator, components, destroys, process>>
    /\ UNCHANGED <<retries, registry, archives, file_writes>>

backup_plugin_estimate_backup_size ==
    /\ process = "running"
    /\ \E r \in WalRanges :
          plugin_call' = PluginReturn("estimate_backup_size",
                             IF g_backup_coordinator = NULL
                             THEN -1
                             ELSE backup_coordinator_estimate_size(r[1], r[2]).ret,
                             0)
    /\ UNCHANGED <<g_backup_coordinator, components, destroys, process>>
    /\ UNCHANGED <<lvars, coordinator, retries, registry, archives, file_writes>>

\* the caller passes the cursor it holds, or NULL
backup_plugin_destroy_cursor ==
    /\ process = "running"
    /\ \E given \in BOOLEAN :
          IF g_backup_coordinator # NULL /\ given
          THEN /\ backup_coordinator_destroy_cursor
               /\ UNCHANGED <<interceptor, locks>>
          ELSE UNCHANGED <<lvars, coordinator>>
    /\ plugin_call' = PluginReturn("destroy_cursor", 0, 0)
    /\ UNCHANGED <<g_backup_coordinator, components, destroys, process>>
    /\ UNCHANGED <<retries, registry, archives, file_writes>>

backup_plugin_get_next_batch ==
    /\ process = "running"
    /\ \E given \in BOOLEAN, max_count \in MaxCounts :
          /\ given => cursor # NULL
          /\ IF g_backup_coordinator = NULL \/ ~given \/ max_count = 0
             THEN /\ plugin_call' = PluginReturn("get_next_batch", 0, 0)
                  /\ UNCHANGED <<lvars, coordinator>>
             ELSE /\ backup_coordinator_get_next_batch(max_count)
                  /\ plugin_call' = PluginReturn("get_next_batch", batch'.count, 0)
                  /\ UNCHANGED <<interceptor, locks>>
    /\ UNCHANGED <<g_backup_coordinator, components, destroys, process>>
    /\ UNCHANGED <<retries, registry, archives, file_writes>>

backup_plugin_generate_metadata ==
    /\ process = "running"
    /\ \E r \in WalRanges, malloc_ok \in BOOLEAN :
          plugin_call' = PluginReturn("generate_metadata",
                             IF g_backup_coordinator = NULL \/ ~malloc_ok THEN -1 ELSE 0, 0)
    /\ UNCHANGED <<g_backup_coordinator, components, destroys, process>>
    /\ UNCHANGED <<lvars, coordinator, retries, registry, archives, file_writes>>

backup_plugin_validate_backup ==
    /\ process = "running"
    /\ \E r \in WalRanges, blocks \in BackupBlocks :
          plugin_call' = PluginReturn("validate_backup",
                             IF g_backup_coordinator = NULL
                             THEN -1
                             ELSE backup_coordinator_validate_backup(r[1], r[2], blocks),
                             0)
    /\ UNCHANGED <<g_backup_coordinator, components, destroys, process>>
    /\ UNCHANGED <<lvars, coordinator, retries, registry, archives, file_writes>>

\* total_backup_blocks, total_backup_size and backup_duration_ms are set to 0
\* by backup_coordinator_init and written nowhere else
backup_plugin_get_stats ==
    /\ process = "running"
    /\ plugin_call' = PluginReturn("get_stats",
                          [total_blocks |-> 0, total_size |-> 0, duration_ms |-> 0], 0)
    /\ UNCHANGED <<g_backup_coordinator, components, destroys, process>>
    /\ UNCHANGED <<lvars, coordinator, retries, registry, archives, file_writes>>

\* last_error_message is set by backup_record_error only, which no entry point
\* reaches
backup_plugin_get_last_error ==
    /\ process = "running"
    /\ plugin_call' = PluginReturn("get_last_error",
                          IF g_backup_coordinator = NULL
                          THEN "Plugin not initialized"
                          ELSE get_error_message(retry_context.last_error),
                          0)
    /\ UNCHANGED <<g_backup_coordinator, components, destroys, process>>
    /\ UNCHANGED <<lvars, coordinator, retries, registry, archives, file_writes>>

backup_plugin_get_error_stats ==
    /\ process = "running"
    /\ plugin_call' = PluginReturn("get_error_stats",
                          IF g_backup_coordinator = NULL
                          THEN [error_count |-> 0, retry_count |-> 0]
                          ELSE backup_get_error_stats,
                          0)
    /\ UNCHANGED <<g_backup_coordinator, components, destroys, process>>
    /\ UNCHANGED <<lvars, coordinator, retries, registry, archives, file_writes>>

backup_plugin_clear_error ==
    /\ process = "running"
    /\ IF g_backup_coordinator = NULL
       THEN UNCHANGED retry_context
       ELSE retry_context' = [retry_context EXCEPT !.last_error = BACKUP_SUCCESS,
                                                   !.state = RETRY_STATE_IDLE]
    /\ plugin_call' = PluginReturn("clear_error", 0, 0)
    /\ UNCHANGED <<g_backup_coordinator, components, destroys, process>>
    /\ UNCHANGED <<error_count, retry_count, running, finished>>
    /\ UNCHANGED <<lvars, coordinator, registry, archives, file_writes>>


(* -------------------- concurrent file writes: steps -------------------- *)
NoFileWrites ==
    /\ ctx = [file_path |-> NO_PATH, data |-> NO_PATH]
    /\ file_writer = [w \in FileWriters |->
                        [pc |-> "call", calls |-> 0, last |-> BACKUP_SUCCESS,
                         wrote |-> <<>>, ret |-> BACKUP_SUCCESS]]
    /\ files = [p \in FileWriters |-> NO_PATH]

\* fopen(.., "wb"), fwrite and fclose on the context handed over; io_ok tells
\* whether the file system lets them succeed
file_write_operation(context, io_ok) ==
    IF context.file_path = NO_PATH \/ context.data = NO_PATH
    THEN [result |-> BACKUP_ERROR_INVALID_PARAM, wrote |-> <<>>]
    ELSE IF ~io_ok
    THEN [result |-> BACKUP_ERROR_FILE_IO, wrote |-> <<>>]
    ELSE [result |-> BACKUP_SUCCESS, wrote |-> <<context.file_path, context.data>>]

\* the stores into the static context, one for the path and one for the data
\* and its size
write_file_ctx ==
    \E w \in FileWriters :
    /\ file_writer[w].pc \in {"call", "data"}
    /\ IF file_writer[w].pc = "call"
       THEN /\ ctx' = [ctx EXCEPT !.file_path = w]
            /\ file_writer' = [file_writer EXCEPT ![w].pc = "data"]
       ELSE /\ ctx' = [ctx EXCEPT !.data = w]
            /\ file_writer' = [file_writer EXCEPT ![w].pc = "enter"]
    /\ UNCHANGED <<files, retries>>
    /\ UNCHANGED <<lvars, coordinator, registry, archives, plugin>>

\* backup_execute_with_retry before its loop
write_file_enter ==
    \E w \in FileWriters :
    /\ file_writer[w].pc = "enter"
    /\ retry_context' = [retry_context EXCEPT !.state = RETRY_STATE_RETRYING,
                                              !.current_retry = 0]
    /\ file_writer' = [file_writer EXCEPT ![w].pc = "loop"]
    /\ UNCHANGED <<ctx, files, error_count, retry_count, running, finished>>
    /\ UNCHANGED <<lvars, coordinator, registry, archives, plugin>>

\* w's attempts are over: it returns result and records a failure
WriterReturns(w, me, result) ==
    /\ file_writer' = [file_writer EXCEPT ![w] = [me EXCEPT !.pc = "returned", !.ret = result]]
    /\ error_count' = IF result # BACKUP_SUCCESS THEN error_count + 1 ELSE error_count

\* one pass of the loop of backup_execute_with_retry up to the return or the
\* increment: the test of the loop, the operation on &ctx and the tests of its
\* result
write_file_attempt ==
    \E w \in FileWriters :
    /\ file_writer[w].pc = "loop"
    /\ IF retry_context.current_retry > retry_context.max_retry
       THEN /\ retry_context' = [retry_context EXCEPT !.state = RETRY_STATE_FAILED]
            /\ WriterReturns(w, file_writer[w], BACKUP_ERROR_RETRY_EXHAUSTED)
            /\ UNCHANGED files
       ELSE \E io_ok \in BOOLEAN :
               LET op == file_write_operation(ctx, io_ok)
                   me == [file_writer[w] EXCEPT !.calls = @ + 1, !.last = op.result,
                                                !.wrote = IF op.wrote = <<>> THEN @ ELSE op.wrote]
               IN /\ files' = IF op.wrote = <<>> THEN files
                              ELSE [files EXCEPT ![op.wrote[1]] = op.wrote[2]]
                  /\ IF op.result = BACKUP_SUCCESS
                     THEN /\ retry_context' = [retry_context EXCEPT !.state = RETRY_STATE_SUCCESS]
                          /\ WriterReturns(w, me, BACKUP_SUCCESS)
                     ELSE IF ~is_retryable_error(op.result)
                             \/ retry_context.current_retry >= retry_context.max_retry
                     THEN /\ retry_context' = [retry_context EXCEPT !.last_error = op.result,
                                                                    !.state = RETRY_STATE_FAILED]
                          /\ WriterReturns(w, me, op.result)
                     ELSE /\ retry_context' = [retry_context EXCEPT !.last_error = op.result]
                          /\ file_writer' = [file_writer EXCEPT ![w] = [me EXCEPT !.pc = "wait"]]
                          /\ UNCHANGED error_count
    /\ UNCHANGED <<ctx, retry_count, running, finished>>
    /\ UNCHANGED <<lvars, coordinator, registry, archives, plugin>>

\* current_retry++ and backup_wait_for_retry
write_file_wait ==
    \E w \in FileWriters :
    /\ file_writer[w].pc = "wait"
    /\ retry_context' = [retry_context EXCEPT !.current_retry = @ + 1]
    /\ file_writer' = [file_writer EXCEPT ![w].pc = "loop"]
    /\ UNCHANGED <<ctx, files, error_count, retry_count, running, finished>>
    /\ UNCHANGED <<lvars, coordinator, registry, archives, plugin>>

addons == <<archives, plugin, file_writes>>

NoAddons == NoArchive /\ NoPlugin /\ NoFileWrites

backup == <<coordinator, retries, registry, addons>>

NoBackup == NoCursor /\ RetryInit(0) /\ NoRegistry /\ NoAddons

bvars == <<lvars, backup>>

(* --------------------------- specification ----------------------------- *)
\* the engine right after bitmap_engine_init
EngineInit ==
    /\ metadata_map = [b \in BlockIds |-> NULL]
    /\ metadata_count = 0
    /\ dirty_blocks = {}
    /\ new_blocks = {}
    /\ deleted_blocks = {}
    /\ time_index = <<>>
    /\ wal_index = <<>>
    /\ total_blocks = 0
    /\ dirty_count = 0
    /\ new_count = 0
    /\ deleted_count = 0
    /\ call = MutatorCall("bitmap_engine_init", 0, SUCCESS)

MarkDirty ==
    /\ \E b \in BlockIds, w \in WalOffsets, t \in Timestamps : bitmap_engine_mark_dirty(b, w, t)
    /\ UNCHANGED <<interceptor, locks, backup>>
MarkNew ==
    /\ \E b \in BlockIds, w \in WalOffsets, t \in Timestamps : bitmap_engine_mark_new(b, w, t)
    /\ UNCHANGED <<interceptor, locks, backup>>
MarkDeleted ==
    /\ \E b \in BlockIds, w \in WalOffsets, t \in Timestamps : bitmap_engine_mark_deleted(b, w, t)
    /\ UNCHANGED <<interceptor, locks, backup>>
ClearBlock ==
    /\ \E b \in BlockIds : bitmap_engine_clear_block(b)
    /\ UNCHANGED <<interceptor, locks, backup>>

\* the engine alone: no interceptor is created
Init == EngineInit /\ NoInterceptor /\ LocksIdle /\ NoBackup

Next ==
    \/ MarkDirty
    \/ MarkNew
    \/ MarkDeleted
    \/ ClearBlock

Spec == Init /\ [][Next]_bvars

(* ---------------- specification of the event interceptor --------------- *)
Configs ==
    [enable_interception : BOOLEAN, event_buffer_size : 1..BufferSize,
     callback_threads : 1..MaxThreads, callback : {NO_CALLBACK, BACKUP_EVENT_CALLBACK}]

\* bitmap_engine_init, then event_interceptor_init with some configuration
InterceptorInit ==
    EngineInit /\ LocksIdle /\ NoBackup /\ \E cfg \in Configs : event_interceptor_init(cfg)

\* the storage engine reports its k-th change with WAL offset and time k
NextOffset == Len(producer_log) + 1

Start == event_interceptor_start /\ UNCHANGED <<locks, backup>>
Stop == event_interceptor_stop /\ UNCHANGED <<locks, backup>>
Destroy == event_interceptor_destroy /\ UNCHANGED <<locks, backup>>
OnBlockCreate ==
    /\ \E b \in EventBlockIds : event_interceptor_on_block_create(b, NextOffset, NextOffset)
    /\ UNCHANGED <<locks, backup>>
OnBlockUpdate ==
    /\ \E b \in EventBlockIds : event_interceptor_on_block_update(b, NextOffset, NextOffset)
    /\ UNCHANGED <<locks, backup>>
OnBlockFlush ==
    /\ \E b \in EventBlockIds : event_interceptor_on_block_flush(b, NextOffset, NextOffset)
    /\ UNCHANGED <<locks, backup>>
OnBlockDelete ==
    /\ \E b \in EventBlockIds : event_interceptor_on_block_delete(b, NextOffset, NextOffset)
    /\ UNCHANGED <<locks, backup>>
WorkerDequeue == (\E t \in Tids : callback_thread_dequeue(t)) /\ UNCHANGED <<locks, backup>>
WorkerHandle == (\E t \in Tids : callback_thread_handle(t)) /\ UNCHANGED <<locks, backup>>
WorkerAfterFree == (\E t \in Tids : callback_thread_after_free(t)) /\ UNCHANGED <<locks, backup>>

InterceptorNext ==
    \/ Start
    \/ Stop
    \/ Destroy
    \/ OnBlockCreate
    \/ OnBlockUpdate
    \/ OnBlockFlush
    \/ OnBlockDelete
    \/ WorkerDequeue
    \/ WorkerHandle
    \/ WorkerAfterFree

InterceptorSpec == InterceptorInit /\ [][InterceptorNext]_bvars

(* ---------------- specification of the engine's locking ---------------- *)
\* NumWriters threads call bitmap_engine_mark_dirty, another the read-only functions
LockInit == EngineInit /\ NoInterceptor /\ LocksIdle /\ NoBackup

WriterLock ==
    /\ \E w \in Writers, b \in BlockIds, wal \in WalOffsets, t \in Timestamps :
          mark_dirty_lock(w, b, wal, t)
    /\ UNCHANGED <<interceptor, backup>>
WriterValidate == (\E w \in Writers : mark_dirty_validate(w)) /\ UNCHANGED <<interceptor, backup>>
WriterInsert == (\E w \in Writers : mark_dirty_insert(w)) /\ UNCHANGED <<interceptor, backup>>
WriterAdd == (\E w \in Writers : mark_dirty_add(w)) /\ UNCHANGED <<interceptor, backup>>
WriterTimeIndex == (\E w \in Writers : mark_dirty_time_index(w)) /\ UNCHANGED <<interceptor, backup>>
WriterWalIndex == (\E w \in Writers : mark_dirty_wal_index(w)) /\ UNCHANGED <<interceptor, backup>>
WriterUnlock == (\E w \in Writers : mark_dirty_unlock(w)) /\ UNCHANGED <<interceptor, backup>>
ReaderLock ==
    /\ \E op \in {"get_block_metadata", "get_dirty_blocks_by_wal"}, b \in BlockIds :
          read_rdlock(op, b)
    /\ UNCHANGED <<interceptor, backup>>
ReaderRead == read_result /\ UNCHANGED <<interceptor, backup>>
ReaderUnlock == read_unlock /\ UNCHANGED <<interceptor, backup>>

LockNext ==
    \/ WriterLock
    \/ WriterValidate
    \/ WriterInsert
    \/ WriterAdd
    \/ WriterTimeIndex
    \/ WriterWalIndex
    \/ WriterUnlock
    \/ ReaderLock
    \/ ReaderRead
    \/ ReaderUnlock

LockSpec == LockInit /\ [][LockNext]_bvars

\* a backup driver reading through cursors of every kind: the engine is filled
\* while there is no cursor and stays as it is while one is open; the driver
\* asks a cursor for batches until it has got MaxCursorBlocks blocks
CursorInit == EngineInit /\ NoInterceptor /\ LocksIdle /\ NoBackup

Fill ==
    /\ cursor = NULL
    /\ heap = "ok"
    /\ \E b \in BlockIds, w \in WalOffsets, t \in Timestamps : bitmap_engine_mark_dirty(b, w, t)
    /\ UNCHANGED <<interceptor, locks, backup>>
CreateCursor ==
    /\ \E type \in ECursorType, t \in TimeRanges, w \in WalRanges :
          backup_coordinator_create_cursor(type, t[1], t[2], w[1], w[2])
    /\ UNCHANGED <<interceptor, locks, retries, registry, addons>>
GetNextBatch ==
    /\ cursor # NULL
    /\ cursor.current_block < MaxCursorBlocks
    /\ \E max_count \in BatchSizes : backup_coordinator_get_next_batch(max_count)
    /\ UNCHANGED <<interceptor, locks, retries, registry, addons>>
DestroyCursor ==
    /\ backup_coordinator_destroy_cursor
    /\ UNCHANGED <<interceptor, locks, retries, registry, addons>>

CursorNext ==
    \/ Fill
    \/ CreateCursor
    \/ GetNextBatch
    \/ DestroyCursor

CursorSpec == CursorInit /\ [][CursorNext]_bvars

\* a backup driver that opens a WAL cursor over every WAL offset and drains
\* it: it asks for batches for as long as the cursor has more
DrainInit == EngineInit /\ NoInterceptor /\ LocksIdle /\ NoBackup

DrainFill ==
    /\ cursor = NULL
    /\ heap = "ok"
    /\ \E b \in BlockIds, w \in WalOffsets, t \in Timestamps : bitmap_engine_mark_dirty(b, w, t)
    /\ UNCHANGED <<interceptor, locks, backup>>
DrainCreate ==
    /\ backup_coordinator_create_cursor(CURSOR_TYPE_WAL, 1, NumTimes, 1, NumWal)
    /\ UNCHANGED <<interceptor, locks, retries, registry, addons>>
DrainBatch ==
    /\ cursor # NULL
    /\ cursor.has_more
    /\ \E max_count \in BatchSizes : backup_coordinator_get_next_batch(max_count)
    /\ UNCHANGED <<interceptor, locks, retries, registry, addons>>
DrainDestroy ==
    /\ backup_coordinator_destroy_cursor
    /\ UNCHANGED <<interceptor, locks, retries, registry, addons>>

DrainNext ==
    \/ DrainFill
    \/ DrainCreate
    \/ DrainBatch
    \/ DrainDestroy

DrainSpec == DrainInit /\ [][DrainNext]_bvars

\* a coordinator whose operations run under backup_execute_with_retry, one
\* at a time
RetrySpecInit ==
    /\ EngineInit /\ NoInterceptor /\ LocksIdle /\ NoCursor /\ NoRegistry /\ NoAddons
    /\ \E max_retry \in 0..MaxRetry : RetryInit(max_retry)

Execute ==
    /\ backup_execute_with_retry_enter("execute")
    /\ UNCHANGED <<engine, call, interceptor, locks, coordinator, registry, addons>>
WriteFile ==
    /\ backup_execute_with_retry_enter("write_file")
    /\ UNCHANGED <<engine, call, interceptor, locks, coordinator, registry, addons>>
Operation ==
    /\ running # NULL
    /\ running.caller = "execute"
    /\ \E result \in OperationResults : backup_execute_with_retry_loop(result)
    /\ UNCHANGED <<engine, call, interceptor, locks, coordinator, registry, addons>>
FileWriteOperation ==
    /\ running # NULL
    /\ running.caller = "write_file"
    /\ \E result \in FileWriteResults : backup_execute_with_retry_loop(result)
    /\ UNCHANGED <<engine, call, interceptor, locks, coordinator, registry, addons>>

RetryNext ==
    \/ Execute
    \/ WriteFile
    \/ Operation
    \/ FileWriteOperation

RetrySpec == RetrySpecInit /\ [][RetryNext]_bvars

\* callers of the storage engine registry
RegistryInit == EngineInit /\ NoInterceptor /\ LocksIdle /\ NoBackup

NameArgs == EngineNames \cup {NO_NAME}
FactoryArgs == Factories \cup {NO_FACTORY}

Register ==
    /\ \E name \in NameArgs, factory \in FactoryArgs, realloc_ok \in BOOLEAN :
          register_storage_engine_interface(name, factory, realloc_ok)
    /\ UNCHANGED <<engine, call, interceptor, locks, coordinator, retries, addons>>
Get ==
    /\ \E name \in NameArgs : get_storage_engine_interface(name)
    /\ UNCHANGED <<engine, call, interceptor, locks, coordinator, retries, addons>>
Cleanup ==
    /\ cleanup_storage_engine_registry
    /\ UNCHANGED <<engine, call, interceptor, locks, coordinator, retries, addons>>

RegistryNext ==
    \/ Register
    \/ Get
    \/ Cleanup

RegistrySpec == RegistryInit /\ [][RegistryNext]_bvars




\* a backup driver whose blocks are marked, deleted and cleared before it
\* opens a WAL cursor over every WAL offset and reads batches from it
RecordDelete ==
    /\ cursor = NULL
    /\ heap = "ok"
    /\ \E b \in BlockIds, w \in WalOffsets, t \in Timestamps : bitmap_engine_mark_deleted(b, w, t)
    /\ UNCHANGED <<interceptor, locks, backup>>
RecordClear ==
    /\ cursor = NULL
    /\ heap = "ok"
    /\ \E b \in BlockIds : bitmap_engine_clear_block(b)
    /\ UNCHANGED <<interceptor, locks, backup>>

RecordNext ==
    \/ DrainFill
    \/ RecordDelete
    \/ RecordClear
    \/ DrainCreate
    \/ GetNextBatch
    \/ DrainDestroy

RecordSpec == DrainInit /\ [][RecordNext]_bvars

(* the archive: one block written with its checksum, the file changed or not,
   then read back *)
ArchiveInit == EngineInit /\ NoInterceptor /\ LocksIdle /\ NoBackup

WriteBlock ==
    /\ \E block_type \in BlockTypes, msg_type \in MsgTypes, body \in Bodies :
          write_taosx_backup_block([block_type |-> block_type, msg_len |-> Len(body),
                                    msg_type |-> msg_type], body)
    /\ UNCHANGED <<lvars, coordinator, retries, registry, plugin, file_writes>>

WriteCrc ==
    /\ archive_pc = "block_written"
    /\ write_taosx_body_crc32(written.body, Len(written.body))
    /\ UNCHANGED <<lvars, coordinator, retries, registry, plugin, file_writes>>

\* something outside the program changes one byte of the payload
Tamper ==
    /\ archive_pc = "closed"
    /\ ~tampered
    /\ \E i \in 8..(7 + Len(written.body)), byte \in BodyBytes :
          /\ byte # archive[i]
          /\ archive' = [archive EXCEPT ![i] = byte]
    /\ tampered' = TRUE
    /\ UNCHANGED <<fpos, archive_pc, written, reader>>
    /\ UNCHANGED <<lvars, coordinator, retries, registry, plugin, file_writes>>

ReadBlock ==
    /\ \E buf_size \in BufSizes : read_taosx_backup_block(buf_size)
    /\ UNCHANGED <<lvars, coordinator, retries, registry, plugin, file_writes>>

ReadCrc ==
    /\ read_taosx_body_crc32
    /\ UNCHANGED <<lvars, coordinator, retries, registry, plugin, file_writes>>

ArchiveNext ==
    \/ WriteBlock
    \/ WriteCrc
    \/ Tamper
    \/ ReadBlock
    \/ ReadCrc

ArchiveSpec == ArchiveInit /\ [][ArchiveNext]_bvars


(* the plugin: its entry points called in any order, before init, while
   initialized and after cleanup *)
PluginInit == EngineInit /\ NoInterceptor /\ LocksIdle /\ NoBackup

PluginNext ==
    \/ backup_plugin_init
    \/ backup_plugin_cleanup
    \/ backup_plugin_get_dirty_blocks
    \/ backup_plugin_create_incremental_cursor
    \/ backup_plugin_estimate_backup_size
    \/ backup_plugin_destroy_cursor
    \/ backup_plugin_get_next_batch
    \/ backup_plugin_generate_metadata
    \/ backup_plugin_validate_backup
    \/ backup_plugin_get_stats
    \/ backup_plugin_get_last_error
    \/ backup_plugin_get_error_stats
    \/ backup_plugin_clear_error

PluginSpec == PluginInit /\ [][PluginNext]_bvars


(* two threads in backup_write_file_with_retry on one coordinator, each with
   its own path and data *)
FileWriteInit ==
    /\ EngineInit /\ NoInterceptor /\ LocksIdle /\ NoCursor /\ NoRegistry /\ NoAddons
    /\ \E max_retry \in 0..MaxWriterRetry : RetryInit(max_retry)

FileWriteNext ==
    \/ write_file_ctx
    \/ write_file_enter
    \/ write_file_attempt
    \/ write_file_wait

FileWriteSpec == FileWriteInit /\ [][FileWriteNext]_bvars


(* ======================================================================= *)
(*                       Properties of the engine                          *)
(* ======================================================================= *)
MutatorOps == {"mark_dirty", "mark_new", "mark_deleted", "clear_block"}

\* the state a call asks for
TargetOf(op) ==
    CASE op = "mark_dirty" -> BLOCK_STATE_DIRTY
      [] op = "mark_new" -> BLOCK_STATE_NEW
      [] op = "mark_deleted" -> BLOCK_STATE_DELETED
      [] op = "clear_block" -> BLOCK_STATE_CLEAN

\* the state of a block: CLEAN when it has no metadata
StateOf(block_id) ==
    IF metadata_map[block_id] = NULL THEN BLOCK_STATE_CLEAN ELSE metadata_map[block_id].state

\* the transition matrix as the data model states it
AllowedEdges ==
    {<<BLOCK_STATE_CLEAN, BLOCK_STATE_DIRTY>>, <<BLOCK_STATE_CLEAN, BLOCK_STATE_NEW>>,
     <<BLOCK_STATE_CLEAN, BLOCK_STATE_DELETED>>,
     <<BLOCK_STATE_DIRTY, BLOCK_STATE_CLEAN>>, <<BLOCK_STATE_DIRTY, BLOCK_STATE_DELETED>>,
     <<BLOCK_STATE_NEW, BLOCK_STATE_DIRTY>>, <<BLOCK_STATE_NEW, BLOCK_STATE_DELETED>>}

\* the step is a call of a mutator on block_id (call' is written by every call)
IsCallOn(block_id) == call'.op \in MutatorOps /\ call'.block_id = block_id

C2_RefusedIsInvalidTransition ==
    [][\A b \in BlockIds :
          (IsCallOn(b) /\ <<StateOf(b), TargetOf(call'.op)>> \notin AllowedEdges) =>
             (call'.ret = ERR_INVALID_STATE_TRANS /\ UNCHANGED engine)]_vars

(* C2 amended: a request that the matrix forbids leaves metadata, bitmaps, *)
(* indices and counters as they were and returns InvalidStateTransition,   *)
(* except clear_block on a block without metadata, which returns           *)
(* BlockNotFound.                                                          *)
C2_RefusedLeavesState ==
    [][\A b \in BlockIds :
          (IsCallOn(b) /\ <<StateOf(b), TargetOf(call'.op)>> \notin AllowedEdges) =>
             /\ call'.ret = IF call'.op = "clear_block" /\ metadata_map[b] = NULL
                            THEN ERR_BLOCK_NOT_FOUND
                            ELSE ERR_INVALID_STATE_TRANS
             /\ UNCHANGED engine]_vars

\* mark_deleted has been refused on a block that is already DELETED
C2_Witness ==
    /\ call.op = "mark_deleted"
    /\ call.ret = ERR_INVALID_STATE_TRANS
    /\ StateOf(call.block_id) = BLOCK_STATE_DELETED
    /\ call.block_id \in deleted_blocks

(* C3 as stated: every block id is in at most one of the dirty, new and    *)
(* deleted bitmaps, and that bitmap is the one of its metadata state.      *)
C3_OneBitmapPerBlock ==
    \A b \in BlockIds :
        /\ (b \in dirty_blocks) => (StateOf(b) = BLOCK_STATE_DIRTY)
        /\ (b \in new_blocks) => (StateOf(b) = BLOCK_STATE_NEW)
        /\ (b \in deleted_blocks) => (StateOf(b) = BLOCK_STATE_DELETED)
        /\ ~(b \in dirty_blocks /\ b \in new_blocks)
        /\ ~(b \in dirty_blocks /\ b \in deleted_blocks)
        /\ ~(b \in new_blocks /\ b \in deleted_blocks)

(* C4: DELETED is terminal: a successful mark_deleted leaves get_state at  *)
(* DELETED, and from then on get_state stays DELETED and every mark_dirty, *)
(* mark_new, mark_deleted and clear_block on the id returns                *)
(* InvalidStateTransition.                                                 *)
C4_DeletedIsTerminal ==
    [][\A b \in BlockIds :
          /\ (IsCallOn(b) /\ call'.op = "mark_deleted" /\ call'.ret = SUCCESS) =>
                bitmap_engine_get_block_state(b)' = [ret |-> SUCCESS, state |-> BLOCK_STATE_DELETED]
          /\ (bitmap_engine_get_block_state(b) = [ret |-> SUCCESS, state |-> BLOCK_STATE_DELETED]) =>
                /\ bitmap_engine_get_block_state(b)' = [ret |-> SUCCESS, state |-> BLOCK_STATE_DELETED]
                /\ IsCallOn(b) => call'.ret = ERR_INVALID_STATE_TRANS]_vars

\* clear_block has been refused on a DELETED block
C4_Witness ==
    /\ call.op = "clear_block"
    /\ call.ret = ERR_INVALID_STATE_TRANS
    /\ bitmap_engine_get_block_state(call.block_id) = [ret |-> SUCCESS, state |-> BLOCK_STATE_DELETED]

(* C5 as stated: clear_block succeeds and erases the metadata of a block   *)
(* whose state is DIRTY or NEW; among blocks with metadata it is refused   *)
(* only for a DELETED one.                                                 *)
C5_ClearFromAnyNonDeleted ==
    [][\A b \in BlockIds :
          (IsCallOn(b) /\ call'.op = "clear_block" /\ metadata_map[b] # NULL) =>
             /\ (StateOf(b) \in {BLOCK_STATE_DIRTY, BLOCK_STATE_NEW}) =>
                   (call'.ret = SUCCESS /\ metadata_map'[b] = NULL)
             /\ (call'.ret # SUCCESS) => (StateOf(b) = BLOCK_STATE_DELETED)]_vars

(* C5 amended: clear_block is permitted from DIRTY only: for a DIRTY block *)
(* it succeeds and erases the metadata; for a NEW block, as for a DELETED  *)
(* one, it is refused with InvalidStateTransition and the metadata stays.  *)
C5_ClearFromDirtyOnly ==
    [][\A b \in BlockIds :
          (IsCallOn(b) /\ call'.op = "clear_block" /\ metadata_map[b] # NULL) =>
             /\ (StateOf(b) = BLOCK_STATE_DIRTY) =>
                   (call'.ret = SUCCESS /\ metadata_map'[b] = NULL)
             /\ (StateOf(b) \in {BLOCK_STATE_NEW, BLOCK_STATE_DELETED}) =>
                   (call'.ret = ERR_INVALID_STATE_TRANS /\ metadata_map'[b] = metadata_map[b])]_vars

\* clear_block has been refused on a NEW block
C5_Witness ==
    /\ call.op = "clear_block"
    /\ call.ret = ERR_INVALID_STATE_TRANS
    /\ StateOf(call.block_id) = BLOCK_STATE_NEW

\* no bitmap holds the id and the engine reports no metadata and no state for it
Absent(b) ==
    /\ b \notin dirty_blocks
    /\ b \notin new_blocks
    /\ b \notin deleted_blocks
    /\ bitmap_engine_get_block_metadata(b).ret = NOT_FOUND
    /\ bitmap_engine_get_block_state(b).ret = ERR_BLOCK_NOT_FOUND

(* C6: after a successful clear_block(id) no bitmap contains id and        *)
(* get_metadata / get_state report it absent, and this stays so until a    *)
(* mark_* call on the id succeeds.                                         *)
C6_ClearedIsAbsent ==
    [][\A b \in BlockIds :
          /\ (IsCallOn(b) /\ call'.op = "clear_block" /\ call'.ret = SUCCESS) => Absent(b)'
          /\ (Absent(b) /\ ~(IsCallOn(b) /\ call'.op # "clear_block" /\ call'.ret = SUCCESS)) =>
                Absent(b)']_vars

\* a block that went through the indices has been cleared
C6_Witness ==
    /\ call.op = "clear_block"
    /\ call.ret = SUCCESS
    /\ Absent(call.block_id)
    /\ \E k \in DOMAIN wal_index : call.block_id \in wal_index[k].bitmap

(* C7 as stated: the number of metadata records equals                     *)
(* |dirty| + |new| + |deleted|.                                            *)
C7_MetadataCountIsBitmapSum ==
    /\ Cardinality({b \in BlockIds : metadata_map[b] # NULL}) =
          Cardinality(dirty_blocks) + Cardinality(new_blocks) + Cardinality(deleted_blocks)
    /\ metadata_count = Cardinality({b \in BlockIds : metadata_map[b] # NULL})

(* C8: for every metadata record (id, wal, ts, state) the id is in the     *)
(* bitmap stored at time_index[ts] and in the one stored at wal_index[wal].*)
C8_MetadataIsIndexed ==
    \A b \in BlockIds :
        LET r == bitmap_engine_get_block_metadata(b)
        IN r.ret = SUCCESS =>
              /\ skiplist_find(time_index, r.metadata.timestamp) # NULL
              /\ b \in skiplist_find(time_index, r.metadata.timestamp).bitmap
              /\ skiplist_find(wal_index, r.metadata.wal_offset) # NULL
              /\ b \in skiplist_find(wal_index, r.metadata.wal_offset).bitmap

\* two blocks carry the same wal offset and timestamp, one of them re-marked
C8_Witness ==
    \E b1 \in BlockIds, b2 \in BlockIds :
        /\ b1 # b2
        /\ metadata_map[b1] # NULL
        /\ metadata_map[b2] # NULL
        /\ metadata_map[b1].wal_offset = metadata_map[b2].wal_offset
        /\ metadata_map[b1].timestamp = metadata_map[b2].timestamp
        /\ \E k \in DOMAIN wal_index :
              k # metadata_map[b1].wal_offset /\ b1 \in wal_index[k].bitmap

(* C9: the dirty, new and deleted counters that get_stats returns equal    *)
(* the cardinalities of the dirty, new and deleted bitmaps.                *)
C9_CountersAreCardinalities ==
    /\ bitmap_engine_get_stats.dirty_count = Cardinality(dirty_blocks)
    /\ bitmap_engine_get_stats.new_count = Cardinality(new_blocks)
    /\ bitmap_engine_get_stats.deleted_count = Cardinality(deleted_blocks)

\* a block was cleared while another one, marked dirty and then deleted,
\* is still counted in the dirty and the deleted bitmap
C9_Witness ==
    /\ call.op = "clear_block"
    /\ call.ret = SUCCESS
    /\ bitmap_engine_get_stats.dirty_count = 1
    /\ bitmap_engine_get_stats.deleted_count = 1
    /\ bitmap_engine_get_stats.new_count = 0

\* r is the ascending list of the max_count smallest ids of want
IsTruncatedAscending(r, want, max_count) ==
    /\ r.count = IF Cardinality(want) < max_count THEN Cardinality(want) ELSE max_count
    /\ Len(r.array) = r.count
    /\ \A i \in 1..Len(r.array) : r.array[i] \in want
    /\ \A i \in 1..Len(r.array), j \in 1..Len(r.array) : i < j => r.array[i] < r.array[j]
    /\ \A b \in want :
          (\A i \in 1..Len(r.array) : r.array[i] # b) =>
             (\A i \in 1..Len(r.array) : r.array[i] < b)

(* C10: get_dirty_blocks_by_wal(lo, hi, out, max), and by_time alike,      *)
(* returns the ids that are in the index bitmap of some key k with         *)
(* lo <= k <= hi and in the dirty bitmap, ascending, cut to max.           *)
C10_RangeQueryResult ==
    /\ \A lo \in WalBounds, hi \in WalBounds, m \in MaxCounts :
          IsTruncatedAscending(
              bitmap_engine_get_dirty_blocks_by_wal(lo, hi, m),
              {b \in dirty_blocks :
                  \E k \in DOMAIN wal_index : lo <= k /\ k <= hi /\ b \in wal_index[k].bitmap},
              m)
    /\ \A lo \in TimeBounds, hi \in TimeBounds, m \in MaxCounts :
          IsTruncatedAscending(
              bitmap_engine_get_dirty_blocks_by_time(lo, hi, m),
              {b \in dirty_blocks :
                  \E k \in DOMAIN time_index : lo <= k /\ k <= hi /\ b \in time_index[k].bitmap},
              m)

\* blocks 1 and 2 are dirty at wal 1 and 2: the query [2, 3] returns block 2
\* alone, [0, 3] returns 1, 2 in ascending order and is cut to block 1 by max = 1
C10_Witness ==
    /\ NumBlocks >= 2 /\ NumWal >= 2 /\ MaxCount >= 2
    /\ StateOf(1) = BLOCK_STATE_DIRTY /\ metadata_map[1].wal_offset = 1
    /\ StateOf(2) = BLOCK_STATE_DIRTY /\ metadata_map[2].wal_offset = 2
    /\ 1 \notin wal_index[2].bitmap
    /\ bitmap_engine_get_dirty_blocks_by_wal(2, 3, 2) = [count |-> 1, array |-> <<2>>, past |-> <<>>]
    /\ bitmap_engine_get_dirty_blocks_by_wal(0, 3, 2).array = <<1, 2>>
    /\ bitmap_engine_get_dirty_blocks_by_wal(0, 3, 1).array = <<1>>

\* the number of ids a query stores through the caller's block_ids pointer
IdsWritten(r) == Len(r.array) + Len(r.past)

(* C11: a range query never writes more than max ids into the caller's    *)
(* array and returns a count <= max, also when the dirty blocks in the     *)
(* range outnumber max.                                                    *)
C11_NeverWritesPastMax ==
    /\ \A lo \in WalBounds, hi \in WalBounds, m \in MaxCounts :
          LET r == bitmap_engine_get_dirty_blocks_by_wal(lo, hi, m)
          IN r.count <= m /\ IdsWritten(r) <= m
    /\ \A lo \in TimeBounds, hi \in TimeBounds, m \in MaxCounts :
          LET r == bitmap_engine_get_dirty_blocks_by_time(lo, hi, m)
          IN r.count <= m /\ IdsWritten(r) <= m


(* ======================================================================= *)
(*                  Properties of the event interceptor                    *)
(* ======================================================================= *)
\* this step is an on_block_* call on an interceptor that intercepts
IsSubmission == config.enable_interception /\ Len(producer_log') = Len(producer_log) + 1

LastSubmission == producer_log[Len(producer_log)]

(* C12: an on_block_* call that finds the ring buffer full drops the      *)
(* event, adds exactly one to events_dropped and returns at once with the  *)
(* buffer as it was; with capacity N and no worker started, M > N calls    *)
(* leave events_dropped = M - N.                                           *)
C12_DropOnFull ==
    [][IsSubmission =>
         /\ Len(event_buffer) >= config.event_buffer_size =>
               /\ event_buffer' = event_buffer
               /\ events_dropped' = events_dropped + 1
               /\ LastSubmission'.result # 0
         /\ Len(event_buffer) < config.event_buffer_size =>
               /\ event_buffer' = Append(event_buffer, LastSubmission'.event)
               /\ events_dropped' = events_dropped
               /\ LastSubmission'.result = 0
         /\ Starts = 0 =>
               events_dropped' = IF Len(producer_log') > config.event_buffer_size
                                 THEN Len(producer_log') - config.event_buffer_size
                                 ELSE 0]_ivars

\* capacity 1, no worker started, three calls: the first event is queued and
\* two are dropped
C12_Witness ==
    /\ config.enable_interception /\ config.event_buffer_size = 1
    /\ Starts = 0 /\ ~Destroyed
    /\ Len(producer_log) = 3
    /\ Len(event_buffer) = 1
    /\ LastSubmission.result # 0
    /\ event_interceptor_get_stats.events_dropped = 2

\* this step is a worker finishing the handling of the event it dequeued
IsHandling == Len(handled') = Len(handled) + 1

LastHandled == handled[Len(handled)]

\* the engine call the mapping rule gives an event kind
EngineOpOf(event_type) ==
    CASE event_type = EVENT_BLOCK_CREATE -> "mark_new"
      [] event_type = EVENT_BLOCK_UPDATE -> "mark_dirty"
      [] event_type = EVENT_BLOCK_FLUSH -> "clear_block"
      [] event_type = EVENT_BLOCK_DELETE -> "mark_deleted"

(* C13: every event a worker dequeues is applied to the engine by its     *)
(* kind (CREATE -> mark_new, UPDATE -> mark_dirty, FLUSH -> clear_block,   *)
(* DELETE -> mark_deleted, with the event's block id), so that once an     *)
(* UPDATE for a CLEAN block has been processed the block is DIRTY.         *)
C13_HandledIsApplied ==
    [][IsHandling =>
         \A b \in EventBlockIds, k \in EEventType :
            (LastHandled'.event.block_id = b /\ LastHandled'.event.event_type = k) =>
               /\ call'.op = EngineOpOf(k)
               /\ call'.block_id = b
               /\ (k = EVENT_BLOCK_UPDATE /\ StateOf(b) = BLOCK_STATE_CLEAN) =>
                     bitmap_engine_get_block_state(b)' =
                         [ret |-> SUCCESS, state |-> BLOCK_STATE_DIRTY]]_ivars

\* the handled events the engine accepted
Applied == {i \in DOMAIN handled : handled[i].ret = SUCCESS}

(* C14: events_processed counts only the events whose application to the  *)
(* engine succeeded; an event the engine rejects is not counted in it.     *)
C14_ProcessedCountsSuccesses ==
    config.callback = BACKUP_EVENT_CALLBACK =>
        event_interceptor_get_stats.events_processed = Cardinality(Applied)

LastApiCall == api_log[Len(api_log)]
WasStarted == \E i \in DOMAIN api_log : api_log[i] = "start"

(* C15: once stop() has returned after a start(), no worker thread is      *)
(* running.                                                                *)
C15_StopReturnedNoWorker ==
    (LastApiCall = "stop" /\ WasStarted) => \A t \in Tids : ~Running(t)

\* the on_block_* calls made on an interceptor that intercepts
Submitted == {i \in DOMAIN producer_log : producer_log[i].event # NULL}

(* C16: when stop() returns after a start(), every accepted event has been *)
(* handled: the ring buffer is empty and the processed (and rejected)      *)
(* events are the submitted ones less the dropped ones.                    *)
C16_StopDrains ==
    [][(api_log' = Append(api_log, "stop") /\ WasStarted) =>
          /\ event_buffer' = <<>>
          /\ events_processed' = Cardinality(Submitted) - events_dropped']_ivars

\* the lifecycle call before the last one
PrevApiCall == api_log[Len(api_log) - 1]

(* C17: a second stop() returns leaving the interceptor in the STOPPED     *)
(* state a single stop() leaves it in (shutdown signalled, no worker       *)
(* running), and no thread is joined twice.                                *)
C17_SecondStopIsStopped ==
    /\ \A t \in Tids : joined[t] <= 1
    /\ (Len(api_log) >= 3 /\ LastApiCall = "stop" /\ PrevApiCall = "stop" /\ WasStarted) =>
          /\ stop_threads
          /\ \A t \in Tids : threads[t].pc \in {"none", "exited"}

(* C18: when destroy() has freed the ring buffer, the mutex and the        *)
(* interceptor, no worker thread is running.                               *)
C18_DestroyedNoWorker ==
    Destroyed => \A t \in Tids : threads[t].pc \notin {"loop", "handle"}

(* C19: the events of the single producer are handled in the order of      *)
(* their submission, for every configured number of worker threads.        *)
C19_HandledInSubmissionOrder ==
    \A i \in DOMAIN handled, j \in DOMAIN handled :
        i < j => handled[i].event.wal_offset < handled[j].event.wal_offset


(* ======================================================================= *)
(*                   Properties of the engine's locking                    *)
(* ======================================================================= *)
\* the statements of mark_dirty between its first and its last store
MidMutation == {"add", "add_time_index", "add_wal_index", "unlock"}

(* C20: no range query or get_block_metadata runs while mark_dirty is      *)
(* inside its critical section, and no read returns a value taken from a   *)
(* half-applied mutation.                                                  *)
C20_ReadersExcludeWriters ==
    /\ ~(InRead /\ InWrite)
    /\ robs # NULL => robs.writer \cap MidMutation = {}

\* the blocks whose metadata says DIRTY
DirtyByMetadata == {b \in BlockIds : StateOf(b) = BLOCK_STATE_DIRTY}

(* C21: when the threads that issue mark_dirty calls on overlapping block  *)
(* ids of an empty engine have all returned, the dirty bitmap holds        *)
(* exactly the ids whose state is DIRTY and the dirty counter is its       *)
(* cardinality.                                                            *)
C21_NoLostMark ==
    (\A w \in Writers : wpc[w] = "idle") =>
        /\ dirty_blocks = DirtyByMetadata
        /\ bitmap_engine_get_stats.dirty_count = Cardinality(DirtyByMetadata)

\* both blocks were marked and a later call on one of them was refused
C21_Witness ==
    /\ \A w \in Writers : wpc[w] = "idle"
    /\ NumWriters >= 2
    /\ dirty_blocks = BlockIds
    /\ bitmap_engine_get_stats.dirty_count = NumBlocks
    /\ call = MutatorCall("mark_dirty", 1, ERR_INVALID_STATE_TRANS)

\* the ids a batch holds
BatchIds == {batch.blocks[i].block_id : i \in 1..batch.count}

(* C22: over the successive get_next_batch calls on one cursor, with the   *)
(* engine left alone in between, no block id is returned in more than one  *)
(* batch.                                                                  *)
C22_AtMostOnce == \A b \in BlockIds : delivered[b] <= 1

\* the elements of a sequence
Elements(s) == {s[i] : i \in DOMAIN s}

\* the dirty blocks a cursor of its type is to select, by the engine's indexes
SelectedBy(c) ==
    LET by_time == Elements(bitmap_engine_get_dirty_blocks_by_time(
                                c.start_time, c.end_time, NumBlocks).array)
        by_wal == Elements(bitmap_engine_get_dirty_blocks_by_wal(
                               c.start_wal, c.end_wal, NumBlocks).array)
    IN CASE c.type = CURSOR_TYPE_TIME -> by_time
         [] c.type = CURSOR_TYPE_WAL -> by_wal
         [] c.type = CURSOR_TYPE_HYBRID -> by_time \cap by_wal

(* C23: a batch of a TIME cursor holds dirty blocks posted in the time     *)
(* index within [t_lo, t_hi], one of a WAL cursor dirty blocks posted in   *)
(* the WAL index within [w_lo, w_hi], one of a HYBRID cursor blocks that   *)
(* are both.                                                               *)
C23_BatchFollowsCursorType ==
    (cursor # NULL /\ batch # NULL) => BatchIds \subseteq SelectedBy(cursor)

\* the dirty blocks whose metadata lies in the range of a cursor of its type
InCursorRange(c) ==
    {b \in DirtyByMetadata :
        /\ c.type \in {CURSOR_TYPE_TIME, CURSOR_TYPE_HYBRID} =>
              /\ c.start_time <= metadata_map[b].timestamp
              /\ metadata_map[b].timestamp <= c.end_time
        /\ c.type \in {CURSOR_TYPE_WAL, CURSOR_TYPE_HYBRID} =>
              /\ c.start_wal <= metadata_map[b].wal_offset
              /\ metadata_map[b].wal_offset <= c.end_wal}

(* C24: a new cursor has has_more = true, and once a cursor drained with   *)
(* the engine left alone has has_more = false, every dirty block of its    *)
(* range has been in one of its batches.                                   *)
C24_DrainedYieldsAll ==
    /\ (cursor # NULL /\ batch = NULL) => cursor.has_more
    /\ (cursor # NULL /\ ~cursor.has_more) =>
          \A b \in InCursorRange(cursor) : delivered[b] >= 1

(* C25: validate_backup(w_lo, w_hi, blocks, n), a read-only function of    *)
(* the engine, returns 0 exactly when the engine has metadata for the id   *)
(* of every one of the n blocks with a wal_offset in [w_lo, w_hi].         *)
C25_ValidateIffAllInRange ==
    \A lo \in WalBounds, hi \in WalBounds, blocks \in BackupBlocks :
        (backup_coordinator_validate_backup(lo, hi, blocks) = 0)
        <=> \A i \in DOMAIN blocks :
               /\ metadata_map[blocks[i]] # NULL
               /\ lo <= metadata_map[blocks[i]].wal_offset
               /\ metadata_map[blocks[i]].wal_offset <= hi

\* block 1 is at wal 1 and block 2 has no metadata: block 1 passes for
\* [1, 1], fails above [0, 0] and below [2, 3], and fails next to block 2
C25_Witness ==
    /\ NumBlocks >= 2 /\ MaxBackupBlocks >= 2
    /\ metadata_map[1] # NULL /\ metadata_map[1].wal_offset = 1
    /\ metadata_map[2] = NULL
    /\ backup_coordinator_validate_backup(1, 1, <<1>>) = 0
    /\ backup_coordinator_validate_backup(1, 1, <<1, 1>>) = 0
    /\ backup_coordinator_validate_backup(0, 0, <<1>>) = -1
    /\ backup_coordinator_validate_backup(2, 3, <<1>>) = -1
    /\ backup_coordinator_validate_backup(1, 1, <<1, 2>>) = -1

\* the errors the retry policy names as retryable
RetryableErrors ==
    {BACKUP_ERROR_NETWORK, BACKUP_ERROR_TIMEOUT, BACKUP_ERROR_CONNECTION_LOST,
     BACKUP_ERROR_FILE_IO}

\* the call this step made an attempt for, as the step leaves it
Attempted == IF running' # NULL THEN running' ELSE finished'[Len(finished')]

(* C26: when a call of the operation fails, backup_execute_with_retry      *)
(* goes on to another attempt exactly when the error is Network, Timeout,  *)
(* ConnectionLost or FileIO and fewer than max_retry retries were made.    *)
C26_RetryIffRetryableWithinBudget ==
    [][(running # NULL /\ Attempted.last # BACKUP_SUCCESS) =>
          /\ Attempted.calls = running.calls + 1
          /\ (running' # NULL) <=>
                /\ Attempted.last \in RetryableErrors
                /\ running.sleeps < retry_context.max_retry]_bvars

\* one call was retried once and then succeeded, the next one failed with a
\* retryable error until no retry was left
C26_Witness ==
    /\ running = NULL
    /\ retry_context.max_retry >= 1
    /\ Len(finished) = 2
    /\ finished[1].calls = 2
    /\ finished[1].first \in RetryableErrors
    /\ finished[1].result = BACKUP_SUCCESS
    /\ finished[2].calls = retry_context.max_retry + 1
    /\ finished[2].last \in RetryableErrors
    /\ finished[2].result # BACKUP_SUCCESS

(* C27: when the operation returns a retryable error on every call,        *)
(* backup_execute_with_retry gives up after max_retry retries and returns  *)
(* RetryExhausted.                                                         *)
C27_ExhaustedResult ==
    \A i \in 1..Len(finished) :
        finished[i].last \in RetryableErrors =>
            /\ finished[i].sleeps = retry_context.max_retry
            /\ finished[i].result = BACKUP_ERROR_RETRY_EXHAUSTED

\* the retries of the calls that have returned
RECURSIVE RetriesOf(_)
RetriesOf(calls) ==
    IF calls = <<>> THEN 0 ELSE Head(calls).sleeps + RetriesOf(Tail(calls))

(* C28: the retry_count that backup_get_error_stats returns is the number  *)
(* of retries the coordinator's retried operations have made.              *)
C28_RetryCountIsTotal ==
    running = NULL => backup_get_error_stats.retry_count = RetriesOf(finished)

(* C29: when the first call of the operation returns an error that is not  *)
(* retryable, backup_execute_with_retry has called the operation once, has *)
(* not slept, returns that error and leaves it in last_error.              *)
C29_NonRetryableAtOnce ==
    /\ \A i \in 1..Len(finished) :
          finished[i].first \notin RetryableErrors \cup {BACKUP_SUCCESS} =>
              /\ finished[i].calls = 1
              /\ finished[i].sleeps = 0
              /\ finished[i].result = finished[i].first
    /\ (running = NULL /\ finished # <<>>) =>
          LET done == finished[Len(finished)]
          IN done.first \notin RetryableErrors \cup {BACKUP_SUCCESS} =>
                retry_context.last_error = done.first

\* with retries to spare, a call whose operation failed with PermissionDenied
\* has returned it after one call
C29_Witness ==
    /\ running = NULL
    /\ retry_context.max_retry >= 1
    /\ finished # <<>>
    /\ finished[Len(finished)] =
          [caller |-> "execute", calls |-> 1, sleeps |-> 0,
           first |-> BACKUP_ERROR_PERMISSION_DENIED,
           last |-> BACKUP_ERROR_PERMISSION_DENIED,
           result |-> BACKUP_ERROR_PERMISSION_DENIED]
    /\ retry_context.last_error = BACKUP_ERROR_PERMISSION_DENIED
    /\ retry_context.state = RETRY_STATE_FAILED

(* C30: get(name) returns the interface of the factory registered last     *)
(* under that name; for a name that was not registered, and for a null     *)
(* name, it returns the default interface, whose is_supported is false.    *)
C30_GetReturnsLatestOrDefault ==
    (registry_call # NULL /\ registry_call.op = "get") =>
        IF registry_call.name \in EngineNames /\ registered[registry_call.name] # <<>>
        THEN LET history == registered[registry_call.name]
             IN registry_call.ret = InterfaceOf(history[Len(history)])
        ELSE /\ registry_call.ret.made_by = "default"
             /\ registry_call.ret.is_supported = FALSE

\* "mock" was registered with factory1 and then with factory2, next to
\* another name, and get("mock") returned the interface of factory2
C30_Witness ==
    /\ registry_call # NULL
    /\ registry_call.op = "get"
    /\ registry_call.name = "mock"
    /\ registered["mock"] = <<"factory1", "factory2">>
    /\ registered["tdengine"] # <<>>
    /\ registered["rocksdb"] = <<>>
    /\ registry_call.ret = InterfaceOf("factory2")

(* C34: mark_dirty on a DIRTY block, mark_new on a NEW block and           *)
(* mark_deleted on a DELETED block return InvalidStateTransition and leave *)
(* the block's metadata, its wal_offset and timestamp, as they were.       *)
C34_RemarkRefused ==
    [][\A b \in BlockIds :
          (IsCallOn(b) /\ call'.op # "clear_block" /\ StateOf(b) = TargetOf(call'.op)) =>
             /\ call'.ret = ERR_INVALID_STATE_TRANS
             /\ metadata_map'[b] = metadata_map[b]]_vars

\* mark_dirty has been refused on a block that is DIRTY, next to a DELETED one
C34_Witness ==
    /\ call.op = "mark_dirty"
    /\ call.ret = ERR_INVALID_STATE_TRANS
    /\ StateOf(call.block_id) = BLOCK_STATE_DIRTY
    /\ \E b \in BlockIds : StateOf(b) = BLOCK_STATE_DELETED

(* C40: the total_blocks that get_stats returns is the number of blocks    *)
(* that have metadata, after any sequence of mark_dirty, mark_new,         *)
(* mark_deleted and clear_block calls.                                     *)
C40_TotalIsBlocksWithMetadata ==
    bitmap_engine_get_stats.total_blocks = Cardinality({b \in BlockIds : metadata_map[b] # NULL})

(* C39: backup_execute_with_retry returns after at most max_retry + 1      *)
(* calls of the operation, each turn of its loop being one more call, and  *)
(* when it has returned the context state is SUCCESS if it returned        *)
(* BACKUP_SUCCESS and FAILED otherwise.                                    *)
C39_BoundedAndFinalState ==
    /\ [](/\ running # NULL => running.calls <= retry_context.max_retry
          /\ \A i \in 1..Len(finished) : finished[i].calls <= retry_context.max_retry + 1
          /\ (running = NULL /\ finished # <<>>) =>
                retry_context.state = IF finished[Len(finished)].result = BACKUP_SUCCESS
                                      THEN RETRY_STATE_SUCCESS
                                      ELSE RETRY_STATE_FAILED)
    /\ [][running # NULL => Attempted.calls = running.calls + 1]_bvars

\* the operation succeeded at the last call the retry limit allows
C39_Witness ==
    /\ running = NULL
    /\ retry_context.max_retry = MaxRetry
    /\ Len(finished) = 1
    /\ finished[1].calls = MaxRetry + 1
    /\ finished[1].result = BACKUP_SUCCESS
    /\ retry_context.state = RETRY_STATE_SUCCESS

(* C35: no worker runs before the first start(), and the live worker       *)
(* threads of an interceptor are never more than its worker count: a       *)
(* second start() without a stop() in between adds none.                   *)
C35_WorkersWithinCount ==
    /\ ~WasStarted => \A t \in Tids : ~Running(t)
    /\ ~Destroyed => Cardinality({t \in Tids : Running(t)}) <= config.callback_threads

\* where an event record is: the slots of the ring buffer, the workers that
\* hold it between dequeue and free, the times it was handled and freed
InQueue(e) == Cardinality({i \in DOMAIN event_buffer : event_buffer[i] = e})
InHand(e) == Cardinality({t \in Tids : threads[t].pc = "handle" /\ threads[t].event = e})
TimesHandled(e) == Cardinality({i \in DOMAIN handled : handled[i].event = e})

(* C36: while producers and workers run, an event the queue rejected is    *)
(* counted in events_dropped and is nowhere else; an accepted event is in  *)
(* the queue, with one worker, or handled, counted and freed once; the     *)
(* submitted events are the dropped and the accepted ones.                 *)
C36_OneFate ==
    ~Destroyed =>
        /\ \A i \in Submitted :
              LET e == producer_log[i].event
              IN InQueue(e) + InHand(e) + TimesHandled(e) =
                     IF producer_log[i].result # 0 THEN 0 ELSE 1
        /\ events_dropped = Cardinality({i \in Submitted : producer_log[i].result # 0})
        /\ events_processed = Cardinality({i \in Submitted :
                                    /\ producer_log[i].result = 0
                                    /\ TimesHandled(producer_log[i].event) = 1})
        /\ events_processed = Len(handled)

\* of three submitted events one was dropped, one handled and one is with
\* a worker, while a second worker waits
C36_Witness ==
    /\ ~Destroyed
    /\ Cardinality(Submitted) = 3
    /\ events_dropped = 1
    /\ events_processed = 1
    /\ \E t \in Tids : threads[t].pc = "handle"
    /\ \E t \in Tids : threads[t].pc = "loop"

(* ======================================================================= *)
(*                       Properties of the archive                         *)
(* ======================================================================= *)
\* C31: a block whose payload no longer matches the stored body_crc32 is
\* rejected by the reader with DataCorruption, and a block the writer wrote
\* with its checksum, left unchanged, is read back with the same type, length,
\* payload and checksum.
C31_ReaderVerifiesCrc ==
    archive_pc = "done" =>
       /\ (reader.block_ret = 0 /\ reader.crc_ret = 0
              /\ crc32(<<0, 0, 0, 0>>, reader.body) # reader.crc) =>
             BACKUP_ERROR_DATA_CORRUPTION \in {reader.block_ret, reader.crc_ret}
       /\ (~tampered /\ written.block_ret = 0 /\ written.crc_ret = 0 /\ reader.block_ret = 0) =>
             /\ reader.crc_ret = 0
             /\ reader.block = written.block
             /\ reader.body = written.body
             /\ reader.crc = crc32(<<0, 0, 0, 0>>, written.body)

(* ======================================================================= *)
(*                       Properties of the plugin                          *)
(* ======================================================================= *)
\* what an entry point returns when the plugin is not initialized
NotInitializedReturn(op) ==
    CASE op \in {"get_dirty_blocks", "get_next_batch"} -> 0
      [] op \in {"estimate_backup_size", "generate_metadata", "validate_backup"} -> -1
      [] op = "create_incremental_cursor" -> NULL
      [] op = "get_stats" -> [total_blocks |-> 0, total_size |-> 0, duration_ms |-> 0]
      [] op = "get_error_stats" -> [error_count |-> 0, retry_count |-> 0]
      [] op = "get_last_error" -> "Plugin not initialized"
      [] OTHER -> 0

LiveCoordinators == {k \in Generations : components[k]["coordinator"] = "live"}

C37_TeardownOnce ==
    /\ plugin_call # NULL => plugin_call.stale_reads = 0
    /\ \A k \in Generations, c \in Components : destroys[k][c] <= 1

(* ======================================================================= *)
(*                  Properties of concurrent file writes                   *)
(* ======================================================================= *)
\* C38: of two concurrent backup_write_file_with_retry calls with different
\* paths and data, each one's operation writes the caller's data to the
\* caller's path, and each call returns the result of its own last attempt.
C38_WritersDoNotInterfere ==
    \A w \in FileWriters :
       /\ file_writer[w].wrote # <<>> => file_writer[w].wrote = <<w, w>>
       /\ file_writer[w].pc = "returned" =>
             /\ file_writer[w].calls >= 1
             /\ file_writer[w].ret = file_writer[w].last

(* ======================================================================= *)
(*                    Properties of the batch records                      *)
(* ======================================================================= *)
\* C33: each of the count records of a batch is filled from the metadata of a
\* block that is DIRTY now and lies in the cursor's WAL range: its state is
\* DIRTY, its block_id, wal_offset and timestamp are the engine's and its data
\* is NULL, also when blocks were deleted or cleared after they were marked.
C33_RecordsAreDirtyBlocks ==
    (cursor # NULL /\ batch # NULL) =>
       \A i \in 1..batch.count :
          LET record == batch.blocks[i]
          IN /\ "state" \in DOMAIN record
             /\ record.state = BLOCK_STATE_DIRTY
             /\ record.data = NULL
             /\ metadata_map[record.block_id] # NULL
             /\ metadata_map[record.block_id].state = BLOCK_STATE_DIRTY
             /\ record.wal_offset = metadata_map[record.block_id].wal_offset
             /\ record.timestamp = metadata_map[record.block_id].timestamp
             /\ cursor.start_wal <= record.wal_offset
             /\ record.wal_offset <= cursor.end_wal

====
